---- MODULE Spec2Model ----
(***************************************************************************)
(* Model of the OpenClaw model-router plugin: the classifier               *)
(* (classifiers.ts), the model scorer (scorer.ts), the router (router.ts), *)
(* the configuration manager (config.ts) and the plugin lifecycle          *)
(* (index.ts).  Spec is the plugin from construction on; SpecClassifier    *)
(* applies scoreDimension to one text and one dimension; SpecRepeat makes  *)
(* repeated calls on the router of an initialized plugin; SpecLength       *)
(* routes texts of boundary lengths through a "length" dimension;          *)
(* SpecScorer applies calculateScore of scorer.ts and of the refactored    *)
(* scorer; SpecPlugin interleaves one hook, route() or formatResult() call *)
(* with the steps of init(), destroy() and edits of the configuration      *)
(* files, and writes the decision log; SpecLogger calls the DecisionLogger *)
(* of index.ts (logDecision, rotateLogIfNeeded, getRecentDecisions) on one *)
(* log directory while the clock advances.                                 *)
(*                                                                         *)
(* Numbers.  Scores, weights and thresholds are JavaScript numbers; they   *)
(* are modelled in fixed point, in thousandths (0.10 is 100, 1.0 is ONE).  *)
(* Weights are multiples of 0.01, so every product the code forms is an    *)
(* exact number of thousandths.                                            *)
(*                                                                         *)
(* Text.  A request text is modelled by its length and by the set of       *)
(* keywords that occur in it; a valid pattern is a keyword and matches a   *)
(* text exactly when the keyword occurs in the text.                       *)
(***************************************************************************)
EXTENDS Integers, Sequences, FiniteSets, TLC

VARIABLES
    disk,           \* the configuration files the ConfigManager reads
    configManager,  \* ModelRouterPlugin.configManager
    router,         \* ModelRouterPlugin.router
    logger,         \* ModelRouterPlugin.logger
    initialized,    \* ModelRouterPlugin.initialized
    initPc,         \* position of a running init(): "idle", "loading", or what
                    \* load() has assigned so far
    request,        \* the arguments a caller is about to pass to the next call,
                    \* with the position of a hook call that is under way
    last,           \* the most recent call that ended and its outcome
    pinned,         \* an earlier route() call kept for comparison with `last`,
                    \* or the destroy() call the plugin has been through
    logDir          \* the decision log directory: decisions.jsonl and the archives

vars ==
    << disk, configManager, router, logger, initialized, initPc, request, last, pinned,
       logDir >>

-----------------------------------------------------------------------------
(* Values *)

\* 1.0 in thousandths
ONE == 10 * 100

\* JavaScript null, for the string-or-null fields of a TierConfig / RoutingResult
NULL == "<null>"

\* JavaScript null, for the object references of the plugin
NullRef == [isNull |-> TRUE]

Has(r, f) == f \in DOMAIN r

Min(a, b) == IF a <= b THEN a ELSE b

ComplexityLevel == {"SIMPLE", "CODING", "CREATIVE", "REASONING", "COMPLEX", "PREMIUM"}

-----------------------------------------------------------------------------
(* Bounds of the model *)

\* Date.now() - startTime ranges over 0..MaxElapsedMs
MaxElapsedMs == 1

\* a dimension of the classifier specification has at most MaxPatterns patterns
MaxPatterns == 4

\* and a max of at most MaxCap
MaxCap == 3

-----------------------------------------------------------------------------
(* classifiers.ts *)

\* Pattern strings the RegExp constructor rejects with a SyntaxError
InvalidPatterns == {"(", "[a-"}

\* new RegExp(pattern, 'i').test(text): throws for an invalid pattern, else
\* searches the text (a fresh RegExp without the g flag keeps no position).
RegExpTest(pattern, text) ==
    IF pattern \in InvalidPatterns
    THEN [threw |-> TRUE, value |-> FALSE]
    ELSE [threw |-> FALSE, value |-> pattern \in text.words]

\* the filter callback without its catch clause
FilterCallbackRethrow(pattern, text) == RegExpTest(pattern, text)

\* the filter callback of scoreDimension:
\*   try { return new RegExp(pattern, 'i').test(text) } catch { return false }
FilterCallback(pattern, text) ==
    LET r == RegExpTest(pattern, text)
    IN IF r.threw THEN [threw |-> FALSE, value |-> FALSE] ELSE r

\* what one call of the filter callback writes to the console: the try block
\* writes nothing, and the catch block is "return false" alone
FilterCallbackConsole(pattern, text) ==
    LET r == RegExpTest(pattern, text)
    IN IF r.threw THEN << >> ELSE << >>

\* a cap of 3 whatever dimension.max is
EffectiveMaxIgnored(dimension) == 3

\* dimension.max || 3: an unset max and a max of 0 are both falsy
EffectiveMax(dimension) ==
    IF Has(dimension, "max") /\ dimension.max # 0 THEN dimension.max ELSE 3

\* the match count multiplied by the weight, without the cap
scoreDimensionUncapped(text, dimension) ==
    IF ~Has(dimension, "patterns") \/ Len(dimension.patterns) = 0
    THEN [threw |-> FALSE, value |-> 0]
    ELSE LET patterns == dimension.patterns
             calls == [i \in DOMAIN patterns |-> FilterCallback(patterns[i], text)]
             matches == Cardinality({i \in DOMAIN patterns : calls[i].value})
         IN [threw |-> \E i \in DOMAIN patterns : calls[i].threw,
             value |-> matches * dimension.weight]

\* scoreDimension returns a number, or ends with the exception a callback let out
scoreDimension(text, dimension) ==
    IF ~Has(dimension, "patterns") \/ Len(dimension.patterns) = 0
    THEN [threw |-> FALSE, value |-> 0]
    ELSE LET patterns == dimension.patterns
             calls == [i \in DOMAIN patterns |-> FilterCallback(patterns[i], text)]
             matches == Cardinality({i \in DOMAIN patterns : calls[i].value})
             capped == Min(matches, EffectiveMax(dimension))
         IN IF \E i \in DOMAIN patterns : calls[i].threw
            THEN [threw |-> TRUE, value |-> 0]
            ELSE [threw |-> FALSE, value |-> capped * dimension.weight]

\* the console lines of one scoreDimension call, in the order of the patterns
scoreDimensionConsole(text, dimension) ==
    IF ~Has(dimension, "patterns") \/ Len(dimension.patterns) = 0
    THEN << >>
    ELSE LET patterns == dimension.patterns
             Lines[i \in 0..Len(patterns)] ==
                 IF i = 0 THEN << >>
                 ELSE Lines[i - 1] \o FilterCallbackConsole(patterns[i], text)
         IN Lines[Len(patterns)]

\* LENGTH_THRESHOLDS
LENGTH_TINY == 50
LENGTH_SHORT == 150
LENGTH_MEDIUM == 500
LENGTH_LONG == 1500

\* LENGTH_SCORES, in tenths: TINY 0, SHORT 0.3, MEDIUM 0.6, LONG 1.0, VERY_LONG 1.5
LENGTH_SCORE_SHORT == 3
LENGTH_SCORE_MEDIUM == 6
LENGTH_SCORE_LONG == 10
LENGTH_SCORE_VERY_LONG == 15

\* the bands closed at their upper threshold instead of their lower one
scoreLengthInclusive(text, weight) ==
    LET length == text.length IN
    IF length <= LENGTH_TINY THEN 0
    ELSE IF length <= LENGTH_SHORT THEN (weight * LENGTH_SCORE_SHORT) \div 10
    ELSE IF length <= LENGTH_MEDIUM THEN (weight * LENGTH_SCORE_MEDIUM) \div 10
    ELSE IF length <= LENGTH_LONG THEN (weight * LENGTH_SCORE_LONG) \div 10
    ELSE (weight * LENGTH_SCORE_VERY_LONG) \div 10

scoreLength(text, weight) ==
    LET length == text.length IN
    IF length < LENGTH_TINY THEN 0
    ELSE IF length < LENGTH_SHORT THEN (weight * LENGTH_SCORE_SHORT) \div 10
    ELSE IF length < LENGTH_MEDIUM THEN (weight * LENGTH_SCORE_MEDIUM) \div 10
    ELSE IF length < LENGTH_LONG THEN (weight * LENGTH_SCORE_LONG) \div 10
    ELSE (weight * LENGTH_SCORE_VERY_LONG) \div 10

-----------------------------------------------------------------------------
(* scorer.ts: ModelScorer.  Sub-scores are in thousandths, the weights in
   ten-thousandths, and calculateScore in their product. *)

\* The candidate model identifiers of the model, each with the substrings it
\* contains among those the scorer tests with String.includes.
Substrings ==
    ("openrouter/qwen/qwen3-coder:free" :> {"coder", "code", "free", ":free", "qwen", "openrouter"})
    @@ ("anthropic/claude-opus-4-5-thinking" :> {"think", "claude", "thinking", "opus"})
    @@ ("anthropic/claude-haiku-4-5" :> {"claude", "haiku"})
    @@ ("openrouter/tngtech/deepseek-r1t2-chimera:free" :> {"r1", "chimera", "free", ":free", "openrouter"})
    @@ ("openrouter/arcee-ai/trinity-large-preview:free" :> {"trinity", "free", ":free", "openrouter", "preview"})
    @@ ("openrouter/meta-llama/llama-3.3-70b-instruct:free" :> {"llama", "free", ":free", "llama-3.3", "openrouter"})
    @@ ("openai/gpt-4o" :> {"gpt", "gpt-4"})
    @@ ("mistral/mistral-small" :> {})
    @@ ("Claude-Code-FREE" :> {})
    @@ ("qwen3-80b" :> {"qwen", "qwen3-80b"})
    @@ ("deepseek-r1-coder" :> {"coder", "code", "r1"})

\* the same for model.toLowerCase()
LowerSubstrings ==
    [Substrings EXCEPT !["Claude-Code-FREE"] = {"code", "claude", "free"}]

Models == DOMAIN Substrings

\* model.includes(sub)
Includes(model, sub) == sub \in Substrings[model]

\* model.toLowerCase().includes(sub)
LowerIncludes(model, sub) == sub \in LowerSubstrings[model]

\* dimensionScores.name > 0; false for a name without a score
ScorePositive(dimensionScores, name) ==
    Has(dimensionScores, name) /\ dimensionScores[name] > 0

\* dimensionScores.name === 0; false for a name without a score
ScoreIsZero(dimensionScores, name) ==
    Has(dimensionScores, name) /\ dimensionScores[name] = 0

isFreeModel(model) == Includes(model, ":free") \/ LowerIncludes(model, "free")

getContextWindow(model) ==
    IF Includes(model, "claude") THEN 200000
    ELSE IF Includes(model, "gpt-4") THEN 128000
    ELSE IF Includes(model, "llama") THEN 128000
    ELSE IF Includes(model, "qwen") THEN 32000
    ELSE 8000

getModelSpeed(model) ==
    IF Includes(model, "haiku") \/ Includes(model, "qwen3-80b") THEN "fast"
    ELSE IF Includes(model, "thinking") \/ Includes(model, "r1") THEN "slow"
    ELSE "medium"

getModelQuality(model) ==
    IF Includes(model, "opus") THEN 950
    ELSE IF Includes(model, "sonnet") THEN 900
    ELSE IF Includes(model, "gpt-4") THEN 900
    ELSE IF Includes(model, "claude") THEN 850
    ELSE IF Includes(model, "llama-3.3") THEN 750
    ELSE IF Includes(model, "qwen") THEN 700
    ELSE 600

\* the scores of free and paid models exchanged
scoreCostInverted(model, totalScore) ==
    LET complexityMultiplier ==
            IF totalScore < 150 THEN ONE
            ELSE IF totalScore < 350 THEN 800
            ELSE IF totalScore < 550 THEN 500
            ELSE 0
    IN IF ~isFreeModel(model) THEN complexityMultiplier
       ELSE (ONE - complexityMultiplier) \div 2

\* the bands closed at their upper threshold
scoreCostInclusive(model, totalScore) ==
    LET complexityMultiplier ==
            IF totalScore <= 150 THEN ONE
            ELSE IF totalScore <= 350 THEN 800
            ELSE IF totalScore <= 550 THEN 500
            ELSE 0
    IN IF isFreeModel(model) THEN complexityMultiplier
       ELSE (ONE - complexityMultiplier) \div 2

scoreCost(model, totalScore) ==
    LET complexityMultiplier ==
            IF totalScore < 150 THEN ONE
            ELSE IF totalScore < 350 THEN 800
            ELSE IF totalScore < 550 THEN 500
            ELSE 0
    IN IF isFreeModel(model) THEN complexityMultiplier
       ELSE (ONE - complexityMultiplier) \div 2

scoreSuitability(model, dimensionScores) ==
    IF LowerIncludes(model, "coder") \/ LowerIncludes(model, "code")
    THEN (IF ScorePositive(dimensionScores, "code") THEN ONE ELSE 500)
    ELSE IF LowerIncludes(model, "r1") \/ LowerIncludes(model, "chimera")
            \/ LowerIncludes(model, "think")
    THEN (IF ScorePositive(dimensionScores, "reasoning") THEN ONE ELSE 500)
    ELSE IF LowerIncludes(model, "trinity")
    THEN (IF ScorePositive(dimensionScores, "creative") THEN ONE ELSE 500)
    ELSE IF LowerIncludes(model, "claude") \/ LowerIncludes(model, "gpt")
            \/ LowerIncludes(model, "llama")
    THEN 700
    ELSE 500

\* Math.floor instead of Math.ceil in the token estimate
scoreContextFloor(model, message) ==
    LET estimatedTokens == message.text.length \div 4
        modelContext == getContextWindow(model)
    IN IF estimatedTokens * 10 > modelContext * 8 THEN 0
       ELSE IF estimatedTokens * 10 > modelContext * 5 THEN 500
       ELSE ONE

\* estimatedTokens > modelContext * 0.8, and * 0.5, without fractions
scoreContext(model, message) ==
    LET estimatedTokens == (message.text.length + 3) \div 4
        modelContext == getContextWindow(model)
    IN IF estimatedTokens * 10 > modelContext * 8 THEN 0
       ELSE IF estimatedTokens * 10 > modelContext * 5 THEN 500
       ELSE ONE

scoreSpeed(model, totalScore) ==
    IF totalScore < 150
    THEN (IF getModelSpeed(model) = "fast" THEN ONE ELSE 500)
    ELSE 700

scoreQuality(model, totalScore) ==
    LET quality == getModelQuality(model)
    IN IF totalScore >= 550
       THEN (IF quality >= 900 THEN ONE ELSE 300)
       ELSE (IF quality >= 600 THEN ONE ELSE 700)

scoreReliability(model) ==
    IF isFreeModel(model) THEN 700
    ELSE IF Includes(model, "claude") \/ Includes(model, "gpt-4") THEN ONE
    ELSE 800

scoreMultilingual(model, message) ==
    IF ~message.text.nonAscii THEN ONE
    ELSE IF Includes(model, "qwen") \/ Includes(model, "llama") THEN ONE
    ELSE 700

scoreCodeGen(model, dimensionScores) ==
    IF ScoreIsZero(dimensionScores, "code") THEN 500
    ELSE IF Includes(model, "coder") \/ Includes(model, "code") THEN ONE
    ELSE IF Includes(model, "claude") \/ Includes(model, "gpt") THEN 800
    ELSE 500

scoreReasoning(model, dimensionScores) ==
    IF ScoreIsZero(dimensionScores, "reasoning") THEN 500
    ELSE IF Includes(model, "r1") \/ Includes(model, "chimera")
            \/ Includes(model, "think") THEN ONE
    ELSE IF Includes(model, "opus") THEN 900
    ELSE 600

scoreCreativity(model, dimensionScores) ==
    IF ScoreIsZero(dimensionScores, "creative") THEN 500
    ELSE IF Includes(model, "trinity") \/ Includes(model, "claude") THEN ONE
    ELSE 700

scoreSafety(model) == ONE

scoreLatency(model, message) ==
    IF getModelSpeed(model) = "fast" THEN ONE ELSE 700

scoreProviderDiversity(model) ==
    IF Includes(model, "openrouter") THEN ONE ELSE 700

scoreExperimental(model) ==
    IF Includes(model, "thinking") \/ Includes(model, "preview") THEN ONE ELSE 500

\* a cost weight of 0.30
weightsCostHeavy ==
    [costEfficiency |-> 3000, taskSuitability |-> 2000, contextWindow |-> 1500,
     speed |-> 1000, quality |-> 1000, reliability |-> 500, multilingual |-> 500,
     codeGeneration |-> 300, reasoningDepth |-> 300, creativity |-> 200,
     safety |-> 100, latencyTolerance |-> 50, providerDiversity |-> 25,
     experimentalFeatures |-> 25]

\* the weights of calculateScore, in ten-thousandths
weights ==
    [costEfficiency |-> 2500, taskSuitability |-> 2000, contextWindow |-> 1500,
     speed |-> 1000, quality |-> 1000, reliability |-> 500, multilingual |-> 500,
     codeGeneration |-> 300, reasoningDepth |-> 300, creativity |-> 200,
     safety |-> 100, latencyTolerance |-> 50, providerDiversity |-> 25,
     experimentalFeatures |-> 25]

\* the 14 sub-scores that calculateScore adds up
SubScores(model, dimensionScores, totalScore, message) ==
    [costEfficiency |-> scoreCost(model, totalScore),
     taskSuitability |-> scoreSuitability(model, dimensionScores),
     contextWindow |-> scoreContext(model, message),
     speed |-> scoreSpeed(model, totalScore),
     quality |-> scoreQuality(model, totalScore),
     reliability |-> scoreReliability(model),
     multilingual |-> scoreMultilingual(model, message),
     codeGeneration |-> scoreCodeGen(model, dimensionScores),
     reasoningDepth |-> scoreReasoning(model, dimensionScores),
     creativity |-> scoreCreativity(model, dimensionScores),
     safety |-> scoreSafety(model),
     latencyTolerance |-> scoreLatency(model, message),
     providerDiversity |-> scoreProviderDiversity(model),
     experimentalFeatures |-> scoreExperimental(model)]

calculateScore(model, dimensionScores, totalScore, message) ==
      scoreCost(model, totalScore) * weights.costEfficiency
    + scoreSuitability(model, dimensionScores) * weights.taskSuitability
    + scoreContext(model, message) * weights.contextWindow
    + scoreSpeed(model, totalScore) * weights.speed
    + scoreQuality(model, totalScore) * weights.quality
    + scoreReliability(model) * weights.reliability
    + scoreMultilingual(model, message) * weights.multilingual
    + scoreCodeGen(model, dimensionScores) * weights.codeGeneration
    + scoreReasoning(model, dimensionScores) * weights.reasoningDepth
    + scoreCreativity(model, dimensionScores) * weights.creativity
    + scoreSafety(model) * weights.safety
    + scoreLatency(model, message) * weights.latencyTolerance
    + scoreProviderDiversity(model) * weights.providerDiversity
    + scoreExperimental(model) * weights.experimentalFeatures

-----------------------------------------------------------------------------
(* The refactored ModelScorer.  Its weights, context windows and quality
   scores are named constants with the values of scorer.ts; the sub-scores
   whose code differs from scorer.ts are scoreCost and scoreSuitability. *)

getComplexityMultiplier(score) ==
    IF score < 150 THEN ONE
    ELSE IF score < 350 THEN 800
    ELSE IF score < 550 THEN 500
    ELSE 0

scoreCostRefactored(model, totalScore) ==
    IF ~isFreeModel(model) THEN (ONE - getComplexityMultiplier(totalScore)) \div 2
    ELSE getComplexityMultiplier(totalScore)

\* a specialist name counts only together with its dimension; otherwise the
\* later tests are tried
scoreSuitabilityRefactored(model, scores) ==
    IF (LowerIncludes(model, "coder") \/ LowerIncludes(model, "code"))
       /\ ScorePositive(scores, "code") THEN ONE
    ELSE IF (LowerIncludes(model, "r1") \/ LowerIncludes(model, "chimera")
             \/ LowerIncludes(model, "think"))
            /\ ScorePositive(scores, "reasoning") THEN ONE
    ELSE IF LowerIncludes(model, "trinity") /\ ScorePositive(scores, "creative") THEN ONE
    ELSE IF LowerIncludes(model, "claude") \/ LowerIncludes(model, "gpt")
            \/ LowerIncludes(model, "llama") THEN 700
    ELSE 500

SubScoresRefactored(model, dimensionScores, totalScore, message) ==
    [SubScores(model, dimensionScores, totalScore, message) EXCEPT
        !.costEfficiency = scoreCostRefactored(model, totalScore),
        !.taskSuitability = scoreSuitabilityRefactored(model, dimensionScores)]

calculateScoreRefactored(model, dimensionScores, totalScore, message) ==
      scoreCostRefactored(model, totalScore) * weights.costEfficiency
    + scoreSuitabilityRefactored(model, dimensionScores) * weights.taskSuitability
    + scoreContext(model, message) * weights.contextWindow
    + scoreSpeed(model, totalScore) * weights.speed
    + scoreQuality(model, totalScore) * weights.quality
    + scoreReliability(model) * weights.reliability
    + scoreMultilingual(model, message) * weights.multilingual
    + scoreCodeGen(model, dimensionScores) * weights.codeGeneration
    + scoreReasoning(model, dimensionScores) * weights.reasoningDepth
    + scoreCreativity(model, dimensionScores) * weights.creativity
    + scoreSafety(model) * weights.safety
    + scoreLatency(model, message) * weights.latencyTolerance
    + scoreProviderDiversity(model) * weights.providerDiversity
    + scoreExperimental(model) * weights.experimentalFeatures

-----------------------------------------------------------------------------
(* router.ts *)

RECURSIVE SumOver(_, _)
SumOver(f, S) ==
    IF S = {} THEN 0
    ELSE LET x == CHOOSE y \in S : TRUE IN f[x] + SumOver(f, S \ {x})

\* every dimension scored by its patterns, the one named "length" too
calculateDimensionScoresByPatterns(this, text) ==
    LET dims == this.dimensions.dimensions
        names == {dims[i].name : i \in DOMAIN dims}
        lastOf(n) == CHOOSE i \in DOMAIN dims :
                        /\ dims[i].name = n
                        /\ \A j \in DOMAIN dims : dims[j].name = n => j <= i
        calls == [n \in names |-> scoreDimension(text, dims[lastOf(n)])]
    IN [threw |-> \E n \in names : calls[n].threw,
        value |-> [n \in names |-> calls[n].value]]

\* this.dimensions.dimensions.reduce(...): one entry per configured name; a
\* later dimension with the same name overwrites the earlier one.
calculateDimensionScores(this, text) ==
    LET dims == this.dimensions.dimensions
        names == {dims[i].name : i \in DOMAIN dims}
        lastOf(n) == CHOOSE i \in DOMAIN dims :
                        /\ dims[i].name = n
                        /\ \A j \in DOMAIN dims : dims[j].name = n => j <= i
        calls == [n \in names |->
                    IF n = "length"
                    THEN [threw |-> FALSE,
                          value |-> scoreLength(text, dims[lastOf(n)].weight)]
                    ELSE scoreDimension(text, dims[lastOf(n)])]
    IN [threw |-> \E n \in names : calls[n].threw,
        value |-> [n \in names |-> calls[n].value]]

\* Object.values(scores).reduce((sum, score) => sum + score, 0)
sumScores(scores) == SumOver(scores, DOMAIN scores)

\* scores.<name> >= t.<threshold>; a comparison with undefined is false
ScoreAtLeast(scores, name, t, threshold) ==
    /\ Has(scores, name)
    /\ Has(t, threshold)
    /\ scores[name] >= t[threshold]

\* the default of rule d: (t.MULTISTEP_TRIGGER || 0.10)
MULTISTEP_DEFAULT == 100

\* the constants of rule e: scores.simple >= 0.10 && totalScore < 0.30
SIMPLE_SCORE_MIN == 100
SIMPLE_TOTAL_MAX == 300

\* t.MULTISTEP_TRIGGER || 0.10: undefined and 0 are both falsy
MultistepTrigger(t) ==
    IF Has(t, "MULTISTEP_TRIGGER") /\ t.MULTISTEP_TRIGGER # 0
    THEN t.MULTISTEP_TRIGGER
    ELSE MULTISTEP_DEFAULT

\* rule b (code) tried before rule a (reasoning)
determineComplexityTierCodeFirst(this, scores, totalScore) ==
    LET t == this.tiers.thresholds IN
    IF ScoreAtLeast(scores, "code", t, "CODING_TRIGGER") THEN "CODING"
    ELSE IF ScoreAtLeast(scores, "reasoning", t, "REASONING_TRIGGER") THEN "REASONING"
    ELSE IF ScoreAtLeast(scores, "creative", t, "CREATIVE_TRIGGER") THEN "CREATIVE"
    ELSE IF Has(scores, "multistep") /\ scores["multistep"] >= MultistepTrigger(t)
         THEN "COMPLEX"
    ELSE IF Has(scores, "simple") /\ scores["simple"] >= SIMPLE_SCORE_MIN
                                  /\ totalScore < SIMPLE_TOTAL_MAX
         THEN "SIMPLE"
    ELSE IF Has(t, "SIMPLE_MAX") /\ totalScore < t.SIMPLE_MAX THEN "SIMPLE"
    ELSE IF Has(t, "PREMIUM_MIN") /\ totalScore >= t.PREMIUM_MIN THEN "PREMIUM"
    ELSE "COMPLEX"

\* the final fallback returns SIMPLE instead of COMPLEX
determineComplexityTierSimpleFallback(this, scores, totalScore) ==
    LET t == this.tiers.thresholds IN
    IF ScoreAtLeast(scores, "reasoning", t, "REASONING_TRIGGER") THEN "REASONING"
    ELSE IF ScoreAtLeast(scores, "code", t, "CODING_TRIGGER") THEN "CODING"
    ELSE IF ScoreAtLeast(scores, "creative", t, "CREATIVE_TRIGGER") THEN "CREATIVE"
    ELSE IF Has(scores, "multistep") /\ scores["multistep"] >= MultistepTrigger(t)
         THEN "COMPLEX"
    ELSE IF Has(scores, "simple") /\ scores["simple"] >= SIMPLE_SCORE_MIN
                                  /\ totalScore < SIMPLE_TOTAL_MAX
         THEN "SIMPLE"
    ELSE IF Has(t, "SIMPLE_MAX") /\ totalScore < t.SIMPLE_MAX THEN "SIMPLE"
    ELSE IF Has(t, "PREMIUM_MIN") /\ totalScore >= t.PREMIUM_MIN THEN "PREMIUM"
    ELSE IF Has(t, "COMPLEX_MIN") /\ totalScore >= t.COMPLEX_MIN THEN "COMPLEX"
    ELSE "SIMPLE"

determineComplexityTier(this, scores, totalScore) ==
    LET t == this.tiers.thresholds IN
    IF ScoreAtLeast(scores, "reasoning", t, "REASONING_TRIGGER") THEN "REASONING"
    ELSE IF ScoreAtLeast(scores, "code", t, "CODING_TRIGGER") THEN "CODING"
    ELSE IF ScoreAtLeast(scores, "creative", t, "CREATIVE_TRIGGER") THEN "CREATIVE"
    ELSE IF Has(scores, "multistep") /\ scores["multistep"] >= MultistepTrigger(t)
         THEN "COMPLEX"
    ELSE IF Has(scores, "simple") /\ scores["simple"] >= SIMPLE_SCORE_MIN
                                  /\ totalScore < SIMPLE_TOTAL_MAX
         THEN "SIMPLE"
    ELSE IF Has(t, "SIMPLE_MAX") /\ totalScore < t.SIMPLE_MAX THEN "SIMPLE"
    ELSE IF Has(t, "PREMIUM_MIN") /\ totalScore >= t.PREMIUM_MIN THEN "PREMIUM"
    ELSE IF Has(t, "COMPLEX_MIN") /\ totalScore >= t.COMPLEX_MIN THEN "COMPLEX"
    ELSE "COMPLEX"

\* a string is truthy unless it is null (or empty)
Truthy(s) == s # NULL /\ s # ""

\* useFree = preferFree, without the test that the tier has a free model
selectModelNoFreeTest(this, tier, preferFree) ==
    IF ~Has(this.tiers.tiers, tier) THEN [threw |-> TRUE]
    ELSE LET tierConfig == this.tiers.tiers[tier]
             useFree == preferFree
         IN [threw |-> FALSE,
             tier |-> tier,
             model |-> IF useFree THEN tierConfig.free ELSE tierConfig.paid,
             fullModel |-> IF useFree THEN tierConfig.fullFree ELSE tierConfig.fullPaid,
             fallback |-> IF useFree THEN tierConfig.paid ELSE NULL,
             fullFallback |-> IF useFree THEN tierConfig.fullPaid ELSE NULL,
             description |-> tierConfig.description]

\* this.tiers.tiers[tier] is undefined for a missing entry, and reading
\* tierConfig.free then throws a TypeError.
selectModel(this, tier, preferFree) ==
    IF ~Has(this.tiers.tiers, tier) THEN [threw |-> TRUE]
    ELSE LET tierConfig == this.tiers.tiers[tier]
             useFree == preferFree /\ Truthy(tierConfig.free)
         IN [threw |-> FALSE,
             tier |-> tier,
             model |-> IF useFree THEN tierConfig.free ELSE tierConfig.paid,
             fullModel |-> IF useFree THEN tierConfig.fullFree ELSE tierConfig.fullPaid,
             fallback |-> IF useFree THEN tierConfig.paid ELSE NULL,
             fullFallback |-> IF useFree THEN tierConfig.fullPaid ELSE NULL,
             description |-> tierConfig.description]

\* SIGMOID_PARAMS
SIGMOID_K == 10
SIGMOID_MIDPOINT == 300

\* Math.exp in fixed point: Exp(x) is e^(x/1000) in thousandths.  Beyond
\* |x/1000| >= 7 the result is below the resolution of the model on one
\* side and is saturated on the other.
EXP_E == 2718
EXP_LIMIT == 7000
EXP_SATURATED == 2000000

RECURSIVE ExpInt(_)
ExpInt(q) == IF q = 0 THEN ONE ELSE (ExpInt(q - 1) * EXP_E) \div ONE

ExpFrac(r) ==
    LET t2 == (r * r) \div (2 * ONE)
        t3 == (t2 * r) \div (3 * ONE)
        t4 == (t3 * r) \div (4 * ONE)
        t5 == (t4 * r) \div (5 * ONE)
    IN ONE + r + t2 + t3 + t4 + t5

RECURSIVE Exp(_)
Exp(x) ==
    IF x >= EXP_LIMIT THEN EXP_SATURATED
    ELSE IF x < 0 THEN (ONE * ONE) \div Exp(0 - x)
    ELSE (ExpInt(x \div ONE) * ExpFrac(x % ONE)) \div ONE

\* the total score reported as the confidence, without the sigmoid
calculateConfidenceRaw(totalScore) == totalScore

\* 1 / (1 + Math.exp(-K * (totalScore - MIDPOINT)))
calculateConfidence(totalScore) ==
    (ONE * ONE) \div (ONE + Exp((0 - SIGMOID_K) * (totalScore - SIGMOID_MIDPOINT)))

\* the elapsed time leaks into the confidence
routeTimedConfidence(this, message, preferFree, executionTimeMs) ==
    LET scored == calculateDimensionScores(this, message.text)
        dimensionScores == scored.value
        totalScore == sumScores(dimensionScores)
        tier == determineComplexityTier(this, dimensionScores, totalScore)
        selection == selectModel(this, tier, preferFree)
    IN IF scored.threw \/ selection.threw THEN [threw |-> TRUE]
       ELSE [threw |-> FALSE,
             tier |-> selection.tier,
             model |-> selection.model,
             fullModel |-> selection.fullModel,
             fallback |-> selection.fallback,
             fullFallback |-> selection.fullFallback,
             description |-> selection.description,
             confidence |-> Min(ONE, calculateConfidence(totalScore) + executionTimeMs),
             totalScore |-> totalScore,
             scores |-> dimensionScores,
             executionTimeMs |-> executionTimeMs]

\* ModelRouter.route; executionTimeMs is Date.now() - startTime
route(this, message, preferFree, executionTimeMs) ==
    LET scored == calculateDimensionScores(this, message.text)
        dimensionScores == scored.value
        totalScore == sumScores(dimensionScores)
        tier == determineComplexityTier(this, dimensionScores, totalScore)
        selection == selectModel(this, tier, preferFree)
    IN IF scored.threw \/ selection.threw THEN [threw |-> TRUE]
       ELSE [threw |-> FALSE,
             tier |-> selection.tier,
             model |-> selection.model,
             fullModel |-> selection.fullModel,
             fallback |-> selection.fallback,
             fullFallback |-> selection.fullFallback,
             description |-> selection.description,
             confidence |-> calculateConfidence(totalScore),
             totalScore |-> totalScore,
             scores |-> dimensionScores,
             executionTimeMs |-> executionTimeMs]

\* availableModels.reduce(...): a score for every candidate model
scoreModels(this, message, availableModels) ==
    LET scored == calculateDimensionScores(this, message.text)
        dimensionScores == scored.value
        totalScore == sumScores(dimensionScores)
    IN IF scored.threw THEN [threw |-> TRUE]
       ELSE [threw |-> FALSE,
             value |-> [model \in availableModels |->
                          calculateScore(model, dimensionScores, totalScore, message)]]

-----------------------------------------------------------------------------
(* config.ts *)

\* a field of a ConfigManager that load() has not assigned yet
Undefined == [isUndefined |-> TRUE]

\* A file on disk is absent, unparseable, or holds a parsed content.
Absent == [state |-> "absent"]
Malformed == [state |-> "malformed"]
FileOf(content) == [state |-> "ok", content |-> content]

\* ConfigManager.loadDimensions / loadTiers: the plugin's file if it exists and
\* parses (a parse error is logged and swallowed), else the skill directory's
\* file if it exists (a parse error there propagates), else an Error.
loadFrom(primary, fallback) ==
    IF primary.state = "ok" THEN [threw |-> FALSE, value |-> primary.content]
    ELSE IF fallback.state = "ok" THEN [threw |-> FALSE, value |-> fallback.content]
    ELSE [threw |-> TRUE]

loadDimensions(d) == loadFrom(d.dimensions, d.dimensionsFallback)

loadTiers(d) == loadFrom(d.tiers, d.tiersFallback)

\* DEFAULT_CONFIG (the fields the plugin reads)
DEFAULT_CONFIG ==
    [enabled |-> TRUE,
     strategy |-> "cost-optimized",
     log_decisions |-> TRUE,
     channels |-> [whatsapp |-> [enabled |-> TRUE], telegram |-> [enabled |-> TRUE]]]

\* { ...DEFAULT_CONFIG, ...loaded }: a shallow merge, the loaded keys win
MergeConfig(loaded) ==
    [k \in DOMAIN DEFAULT_CONFIG \cup DOMAIN loaded |->
        IF k \in DOMAIN loaded THEN loaded[k] ELSE DEFAULT_CONFIG[k]]

\* ConfigManager.loadConfig never throws: a missing or unparseable
\* default.yaml yields DEFAULT_CONFIG.
loadConfig(d) ==
    IF d.config.state = "ok" THEN MergeConfig(d.config.content) ELSE DEFAULT_CONFIG

\* new ConfigManager(): nothing loaded yet
NewConfigManager == [config |-> Undefined, dimensions |-> Undefined, tiers |-> Undefined]

\* ConfigManager.load(): config, then dimensions, then tiers; the first
\* failure propagates and leaves the later fields unassigned.
load(this, d) ==
    LET c == loadConfig(d)
        dm == loadDimensions(d)
        tr == loadTiers(d)
    IN IF dm.threw
       THEN [threw |-> TRUE, this |-> [this EXCEPT !.config = c]]
       ELSE IF tr.threw
       THEN [threw |-> TRUE, this |-> [this EXCEPT !.config = c, !.dimensions = dm.value]]
       ELSE [threw |-> FALSE,
             this |-> [config |-> c, dimensions |-> dm.value, tiers |-> tr.value]]

-----------------------------------------------------------------------------
(* The configurations and requests of the model *)

Dim(name, weight, max, patterns) ==
    [name |-> name, weight |-> weight, max |-> max, patterns |-> patterns]

\* keywords that may occur in a request text
Keywords == {"prove", "function", "story", "then", "hello", "kubernetes"}

TextLengths == {45, 200}

Texts == [words : SUBSET Keywords, length : TextLengths, nonAscii : {FALSE}]

\* dimensions.json: a typical table
DimensionsTypical ==
    [dimensions |-> <<
        Dim("reasoning", 180, 2, <<"prove">>),
        Dim("code", 150, 2, <<"function">>),
        Dim("creative", 120, 1, <<"story">>),
        Dim("multistep", 50, 3, <<"then">>),
        Dim("simple", 120, 1, <<"hello">>),
        Dim("technical", 400, 2, <<"kubernetes">>),
        Dim("length", 250, 1, << >>) >>]

\* dimensions.json: invalid patterns, max 0, a dimension without patterns, a
\* repeated name, a negative weight, and no "creative" dimension
DimensionsOdd ==
    [dimensions |-> <<
        Dim("reasoning", 60, 0, <<"prove", "(", "prove">>),
        Dim("code", 10, 1, <<"prove">>),
        Dim("code", 150, 1, <<"[a-", "function", "kubernetes">>),
        Dim("multistep", 150, 2, <<"then">>),
        Dim("simple", 100, 1, <<"hello", "hello">>),
        Dim("technical", 210, 2, <<"kubernetes", "story">>),
        Dim("casual", -50, 2, <<"hello">>),
        [name |-> "context", weight |-> 70, max |-> 2] >>]

DimensionsFiles == {DimensionsTypical, DimensionsOdd}

TierEntry(description, free, paid, fullFree, fullPaid) ==
    [description |-> description, free |-> free, paid |-> paid,
     fullFree |-> fullFree, fullPaid |-> fullPaid]

\* tiers.json: the six tiers of the shipped table
TiersFull ==
    [SIMPLE |-> TierEntry("Simple queries", "qwen3-80b", "haiku",
                   "openrouter/qwen/qwen3-next-80b-a3b-instruct:free",
                   "anthropic/claude-haiku-4-5"),
     CODING |-> TierEntry("Code generation", "qwen-coder", "sonnet",
                   "openrouter/qwen/qwen3-coder:free", "anthropic/claude-sonnet-4-5"),
     CREATIVE |-> TierEntry("Creative writing", "trinity", "sonnet",
                   "openrouter/arcee-ai/trinity-large-preview:free",
                   "anthropic/claude-sonnet-4-5"),
     REASONING |-> TierEntry("Reasoning and proofs", "r1t2-chimera", "opus",
                   "openrouter/tngtech/deepseek-r1t2-chimera:free",
                   "anthropic/claude-opus-4-5"),
     COMPLEX |-> TierEntry("Complex tasks", "llama-3.3", "sonnet",
                   "openrouter/meta-llama/llama-3.3-70b-instruct:free",
                   "anthropic/claude-sonnet-4-5"),
     PREMIUM |-> TierEntry("Premium tasks", NULL, "opus-thinking",
                   NULL, "google-antigravity/claude-opus-4-5-thinking")]

Without(table, tier) == [t \in DOMAIN table \ {tier} |-> table[t]]

\* the tier tables of the model: the full table, tables that lack an entry,
\* a table whose CODING tier has no free model, and one whose CODING tier has
\* a free model without its fully-qualified identifier (TierConfig allows
\* free and fullFree to be null independently)
TierTables ==
    { TiersFull,
      Without(TiersFull, "PREMIUM"),
      Without(TiersFull, "CODING"),
      [TiersFull EXCEPT !.CODING.free = NULL, !.CODING.fullFree = NULL],
      [TiersFull EXCEPT !.CODING.fullFree = NULL] }

\* the thresholds of the model; MULTISTEP_TRIGGER may be left unset
ThresholdsWith ==
    [REASONING_TRIGGER : {100},
     CODING_TRIGGER : {100},
     CREATIVE_TRIGGER : {100},
     MULTISTEP_TRIGGER : {0, 200},
     SIMPLE_MAX : {150, 350},
     COMPLEX_MIN : {350, 900},
     PREMIUM_MIN : {550, 100}]

WithoutField(r, f) == [k \in DOMAIN r \ {f} |-> r[k]]

ThresholdSets ==
    ThresholdsWith \cup
    {WithoutField(t, "MULTISTEP_TRIGGER") : t \in {u \in ThresholdsWith : u.MULTISTEP_TRIGGER = 0}}

\* tiers.json contents: a table with thresholds, or a document without "tiers"
TiersFiles ==
    {[tiers |-> tb, thresholds |-> th] : tb \in TierTables, th \in ThresholdSets}

TiersFallbackFile == [tiers |-> TiersFull, thresholds |-> CHOOSE t \in ThresholdSets :
                         /\ ~Has(t, "MULTISTEP_TRIGGER") /\ t.REASONING_TRIGGER = 100
                         /\ t.SIMPLE_MAX = 150 /\ t.COMPLEX_MIN = 350 /\ t.PREMIUM_MIN = 550]

\* The disks of the model: both files in the plugin directory; or one of
\* them missing or unparseable, with or without the skill directory's copy.
Disks ==
    { [config |-> Absent, dimensions |-> FileOf(dm), dimensionsFallback |-> Absent,
       tiers |-> FileOf(tr), tiersFallback |-> Absent]
        : dm \in DimensionsFiles, tr \in TiersFiles }
    \cup
    { [config |-> Absent, dimensions |-> FileOf(DimensionsTypical),
       dimensionsFallback |-> Absent, tiers |-> p, tiersFallback |-> f]
        : p \in {Absent, Malformed}, f \in {Absent, FileOf(TiersFallbackFile)} }
    \cup
    { [config |-> Absent, dimensions |-> p, dimensionsFallback |-> f,
       tiers |-> FileOf(TiersFallbackFile), tiersFallback |-> Absent]
        : p \in {Absent, Malformed}, f \in {Absent, FileOf(DimensionsTypical)} }

-----------------------------------------------------------------------------
(* index.ts: the plugin *)

NoCall == [op |-> "none"]

\* the log directory before anything is logged: no decisions.jsonl, no archive
EmptyLogDir == [exists |-> FALSE, active |-> << >>, archives |-> << >>]

NoRequest == [none |-> TRUE]

Message(text) == [id |-> "m1", text |-> text, channel |-> "default"]

\* the requests of the model: a message and the cost-preference flag
Requests == [message : {Message(t) : t \in Texts}, preferFree : BOOLEAN]

Init ==
    /\ disk \in Disks
    /\ request \in Requests
    /\ configManager = NullRef
    /\ router = NullRef
    /\ logger = NullRef
    /\ initialized = FALSE
    /\ initPc = "idle"
    /\ last = NoCall
    /\ pinned = NoCall
    /\ logDir = EmptyLogDir

\* init(), up to the await: this.configManager = new ConfigManager(...)
InitBegin ==
    /\ initPc = "idle"
    /\ configManager' = NewConfigManager
    /\ initPc' = "loading"
    /\ UNCHANGED << logDir, disk, router, logger, initialized, request, last, pinned >>

\* init(), from the await on: load() fails and the error is rethrown
InitFail ==
    /\ initPc = "loading"
    /\ LET r == load(configManager, disk) IN
        /\ r.threw
        /\ configManager' = r.this
    /\ initPc' = "idle"
    /\ last' = [op |-> "init", threw |-> TRUE]
    /\ UNCHANGED << logDir, disk, router, logger, initialized, request, pinned >>

\* init(), from the await on: load() succeeds; the router and the decision
\* logger are built from what was loaded
InitSucceed ==
    /\ initPc = "loading"
    /\ LET r == load(configManager, disk) IN
        /\ ~r.threw
        /\ configManager' = r.this
        /\ router' = [dimensions |-> r.this.dimensions, tiers |-> r.this.tiers]
        /\ logger' = [enabled |-> r.this.config.log_decisions]
    /\ initialized' = TRUE
    /\ initPc' = "idle"
    /\ last' = [op |-> "init", threw |-> FALSE]
    /\ UNCHANGED << logDir, disk, request, pinned >>

\* destroy(); `pinned` remembers that the plugin was destroyed once
Destroy ==
    /\ initPc = "idle"
    /\ initialized
    /\ initialized' = FALSE
    /\ router' = NullRef
    /\ configManager' = NullRef
    /\ logger' = NullRef
    /\ last' = [op |-> "destroy"]
    /\ pinned' = [op |-> "destroy"]
    /\ UNCHANGED << logDir, disk, initPc, request >>

\* the outcome of router.route(message, preferFree), as the caller sees it
RouteCall(message, preferFree, elapsed) ==
    [op |-> "route", message |-> message, preferFree |-> preferFree,
     result |-> route(router, message, preferFree, elapsed)]

\* a call of ModelRouter.route on the plugin's router with the pending request
Route ==
    /\ router # NullRef
    /\ request # NoRequest
    /\ \E elapsed \in 0..MaxElapsedMs :
        last' = RouteCall(request.message, request.preferFree, elapsed)
    /\ UNCHANGED << logDir, disk, configManager, router, logger, initialized, initPc, request, pinned >>

Next ==
    \/ InitBegin
    \/ InitFail
    \/ InitSucceed
    \/ Route

Spec == Init /\ [][Next]_vars

-----------------------------------------------------------------------------
(* Claims about the router *)

\* the last call was route() and it returned a RoutingResult
RouteReturned == last.op = "route" /\ ~last.result.threw

\* the thresholds the router of the last call was built with
LastThresholds == router.tiers.thresholds

\* a specialized trigger of the cascade is met by the last call's scores
TriggerMet(name, threshold) ==
    /\ name \in DOMAIN last.result.scores
    /\ threshold \in DOMAIN LastThresholds
    /\ last.result.scores[name] >= LastThresholds[threshold]

ReasoningMet == TriggerMet("reasoning", "REASONING_TRIGGER")
CodingMet == TriggerMet("code", "CODING_TRIGGER")
CreativeMet == TriggerMet("creative", "CREATIVE_TRIGGER")

\* rule d, with the trigger the code applies
MultistepMet ==
    /\ "multistep" \in DOMAIN last.result.scores
    /\ last.result.scores["multistep"] >=
         (IF "MULTISTEP_TRIGGER" \in DOMAIN LastThresholds
             /\ LastThresholds.MULTISTEP_TRIGGER # 0
          THEN LastThresholds.MULTISTEP_TRIGGER ELSE MULTISTEP_DEFAULT)

\* C1: every result route() returns has a tier among the six levels and a
\* confidence between 0 and 1.
C1_TierAndConfidenceInRange ==
    RouteReturned =>
        /\ last.result.tier \in ComplexityLevel
        /\ last.result.confidence >= 0
        /\ last.result.confidence <= ONE

\* a result with a total score above 1.0 and a confidence above one half
C1_Witness ==
    /\ RouteReturned
    /\ last.result.tier = "REASONING"
    /\ last.result.totalScore > ONE
    /\ last.result.confidence > ONE \div 2

\* C2: tier-table fidelity.  With preferFree and a free model in the tier's
\* entry, the result holds the free model and the paid model as fallback;
\* without a free model, or without preferFree, it holds the paid model and no
\* fallback.
C2_TierTableFidelity ==
    RouteReturned =>
        LET T == router.tiers.tiers[last.result.tier] IN
        /\ (last.preferFree /\ T.free # NULL) =>
              /\ last.result.model = T.free
              /\ last.result.fallback = T.paid
        /\ (T.free = NULL \/ ~last.preferFree) =>
              /\ last.result.model = T.paid
              /\ last.result.fallback = NULL

\* preferFree on a tier without a free model: the paid model, no fallback
C2_Witness ==
    /\ RouteReturned
    /\ last.preferFree
    /\ last.result.tier = "PREMIUM"
    /\ router.tiers.tiers["PREMIUM"].free = NULL
    /\ last.result.model = "opus-thinking"
    /\ last.result.fallback = NULL

\* C3: the specialized triggers are a first-match-wins cascade that overrides
\* the total-score bands: reasoning, then code, then creative, then multistep.
C3_CascadePrecedence ==
    RouteReturned =>
        /\ ReasoningMet => last.result.tier = "REASONING"
        /\ (~ReasoningMet /\ CodingMet) => last.result.tier = "CODING"
        /\ (~ReasoningMet /\ ~CodingMet /\ CreativeMet) => last.result.tier = "CREATIVE"
        /\ (~ReasoningMet /\ ~CodingMet /\ ~CreativeMet /\ MultistepMet)
              => last.result.tier = "COMPLEX"

\* reasoning wins although code and creative are met with a higher score and
\* the total is in the PREMIUM band
C3_Witness ==
    /\ RouteReturned
    /\ ReasoningMet /\ CodingMet /\ CreativeMet
    /\ last.result.totalScore >= LastThresholds.PREMIUM_MIN
    /\ last.result.tier = "REASONING"

NoTriggerMet == ~ReasoningMet /\ ~CodingMet /\ ~CreativeMet /\ ~MultistepMet

\* the tier of the total-score bands, as the claim gives it
BandTier ==
    LET s == last.result.scores
        total == last.result.totalScore
    IN IF \/ ("simple" \in DOMAIN s /\ s["simple"] >= 100 /\ total < 300)
          \/ total < LastThresholds.SIMPLE_MAX
       THEN "SIMPLE"
       ELSE IF total >= LastThresholds.PREMIUM_MIN THEN "PREMIUM"
       ELSE "COMPLEX"

\* values COMPLEX_MIN could have been configured with instead
ComplexMinAlternatives == {0, 100, 350, 550, 900, 5000}

RouterWithComplexMin(v) == [router EXCEPT !.tiers.thresholds.COMPLEX_MIN = v]

RouterWithoutComplexMin ==
    [router EXCEPT !.tiers.thresholds = WithoutField(LastThresholds, "COMPLEX_MIN")]

\* C4: without a specialized trigger the tier is SIMPLE, PREMIUM or COMPLEX by
\* the bands of the claim; PREMIUM needs a total of at least PREMIUM_MIN and
\* SIMPLE_MAX; and no value of COMPLEX_MIN gives another tier.
C4_ScoreBands ==
    RouteReturned =>
        /\ NoTriggerMet => last.result.tier = BandTier
        /\ last.result.tier = "PREMIUM" =>
              /\ last.result.totalScore >= LastThresholds.PREMIUM_MIN
              /\ last.result.totalScore >= LastThresholds.SIMPLE_MAX
        /\ \A v \in ComplexMinAlternatives :
              determineComplexityTier(RouterWithComplexMin(v), last.result.scores,
                                      last.result.totalScore) = last.result.tier
        /\ determineComplexityTier(RouterWithoutComplexMin, last.result.scores,
                                   last.result.totalScore) = last.result.tier

\* no trigger, a total between SIMPLE_MAX and both PREMIUM_MIN and COMPLEX_MIN:
\* the final fallback gives COMPLEX
C4_Witness ==
    /\ RouteReturned
    /\ NoTriggerMet
    /\ last.result.totalScore >= LastThresholds.SIMPLE_MAX
    /\ last.result.totalScore < LastThresholds.PREMIUM_MIN
    /\ last.result.totalScore < LastThresholds.COMPLEX_MIN
    /\ last.result.tier = "COMPLEX"

\* C5: route() never throws on a configuration that init() accepted.
C5_RouteNeverThrows ==
    last.op = "route" => ~last.result.threw

\* the tier the cascade resolves for a text on router r
ResolvedTier(r, text) ==
    LET scores == calculateDimensionScores(r, text).value
    IN determineComplexityTier(r, scores, sumScores(scores))

\* C6: a configuration that init() accepted has an entry for every tier the
\* cascade can resolve.
C6_MissingTierRejectedAtLoad ==
    (last.op = "init" /\ ~last.threw) =>
        \A text \in Texts : Has(router.tiers.tiers, ResolvedTier(router, text))

-----------------------------------------------------------------------------
(* The classifier on its own: scoreDimension applied to one text and one
   dimension *)

ClassifierPatterns == {"prove", "function", "("}

PatternLists == UNION {[1..n -> ClassifierPatterns] : n \in 0..MaxPatterns}

ClassifierWeights == {0 - 50, 0, 120}

\* dimensions as the Dimension type has them, and dimensions whose max or
\* patterns field is unset, which scoreDimension provides for
ClassifierDimensions ==
    {Dim("d", w, m, ps) : w \in ClassifierWeights, m \in 0..MaxCap, ps \in PatternLists}
    \cup {[name |-> "d", weight |-> w, patterns |-> ps]
            : w \in ClassifierWeights, ps \in PatternLists}
    \cup {[name |-> "d", weight |-> w, max |-> m]
            : w \in ClassifierWeights, m \in 0..MaxCap}

ClassifierTexts == [words : SUBSET {"prove", "function"}, length : {45}, nonAscii : {FALSE}]

EmptyDisk ==
    [config |-> Absent, dimensions |-> Absent, dimensionsFallback |-> Absent,
     tiers |-> Absent, tiersFallback |-> Absent]

InitClassifier ==
    /\ disk = EmptyDisk
    /\ request \in [text : ClassifierTexts, dimension : ClassifierDimensions]
    /\ configManager = NullRef
    /\ router = NullRef
    /\ logger = NullRef
    /\ initialized = FALSE
    /\ initPc = "idle"
    /\ last = NoCall
    /\ pinned = NoCall
    /\ logDir = EmptyLogDir

\* classifier.scoreDimension(text, dimension)
ScoreDimension ==
    /\ last = NoCall
    /\ Has(request, "dimension")
    /\ last' = [op |-> "scoreDimension", text |-> request.text,
                dimension |-> request.dimension,
                result |-> scoreDimension(request.text, request.dimension),
                console |-> scoreDimensionConsole(request.text, request.dimension)]
    /\ UNCHANGED << logDir, disk, configManager, router, logger, initialized, initPc,
                    request, pinned >>

NextClassifier == ScoreDimension

SpecClassifier == InitClassifier /\ [][NextClassifier]_vars

-----------------------------------------------------------------------------
(* Repeated calls on one router: an earlier route() call is remembered in
   pinned while later route() and scoreModels() calls run *)

TextsRepeat ==
    [words : SUBSET {"prove", "function", "kubernetes"}, length : {45}, nonAscii : {FALSE}]

ModelLists == {Models, {"openai/gpt-4o"}}

RepeatDisks ==
    { [config |-> Absent, dimensions |-> FileOf(dm), dimensionsFallback |-> Absent,
       tiers |-> FileOf(TiersFallbackFile), tiersFallback |-> Absent]
        : dm \in DimensionsFiles }

\* the state after a successful init()
InitRepeat ==
    /\ disk \in RepeatDisks
    /\ LET r == load(NewConfigManager, disk) IN
        /\ configManager = r.this
        /\ router = [dimensions |-> r.this.dimensions, tiers |-> r.this.tiers]
        /\ logger = [enabled |-> r.this.config.log_decisions]
    /\ initialized = TRUE
    /\ initPc = "idle"
    /\ request = NoRequest
    /\ last = NoCall
    /\ pinned = NoCall
    /\ logDir = EmptyLogDir

\* pinned after one more call: the call that was the last one so far now lies
\* between the remembered call and the new one
PinnedAfterCall ==
    IF pinned = NoCall THEN pinned
    ELSE IF pinned.fresh THEN [pinned EXCEPT !.fresh = FALSE]
    ELSE [pinned EXCEPT !.between = @ \cup {last.op}]

\* router.route(message, preferFree), measuring the shortest or the longest
\* elapsed time
RepeatRoute ==
    /\ router # NullRef
    /\ \E text \in TextsRepeat, preferFree \in BOOLEAN, elapsed \in {0, MaxElapsedMs} :
        last' = RouteCall(Message(text), preferFree, elapsed)
    /\ pinned' = PinnedAfterCall
    /\ UNCHANGED << logDir, disk, configManager, router, logger, initialized, initPc, request >>

\* router.scoreModels(message, availableModels)
RepeatScoreModels ==
    /\ router # NullRef
    /\ \E text \in TextsRepeat, availableModels \in ModelLists :
        last' = [op |-> "scoreModels", message |-> Message(text),
                 result |-> scoreModels(router, Message(text), availableModels)]
    /\ pinned' = PinnedAfterCall
    /\ UNCHANGED << logDir, disk, configManager, router, logger, initialized, initPc, request >>

\* the observer remembers the route() call that has just returned
Pin ==
    /\ pinned = NoCall
    /\ last.op = "route"
    /\ pinned' = [call |-> last, fresh |-> TRUE, between |-> {}]
    /\ UNCHANGED << logDir, disk, configManager, router, logger, initialized, initPc,
                    request, last >>

NextRepeat ==
    \/ RepeatRoute
    \/ RepeatScoreModels
    \/ Pin

SpecRepeat == InitRepeat /\ [][NextRepeat]_vars

-----------------------------------------------------------------------------
(* Claims about repeated calls *)

\* a remembered route() call and a later route() call, on the same router
TwoRoutes == pinned # NoCall /\ ~pinned.fresh /\ last.op = "route"

SameInput ==
    /\ pinned.call.message.text = last.message.text
    /\ pinned.call.preferFree = last.preferFree

PatternDimensions ==
    LET dims == router.dimensions.dimensions
    IN {dims[i] : i \in {k \in DOMAIN dims :
            /\ dims[k].name # "length"
            /\ Has(dims[k], "patterns")
            /\ \A j \in DOMAIN dims : dims[j].name = dims[k].name => j <= k}}

\* the patterns of D, by position, that match the text
MatchedPatterns(D, text) ==
    {k \in DOMAIN D.patterns :
        D.patterns[k] \notin InvalidPatterns /\ D.patterns[k] \in text.words}

\* text A of the remembered call and text B of the last call
TextA == pinned.call.message.text
TextB == last.message.text
ScoresA == pinned.call.result.scores
ScoresB == last.result.scores

TwoRoutesReturned == TwoRoutes /\ ~pinned.call.result.threw /\ ~last.result.threw

OtherScoresEqual(D) ==
    \A n \in DOMAIN ScoresA \ {D.name} : ScoresA[n] = ScoresB[n]

\* monotonicity of D's score and of the total score
Monotone(D) ==
    MatchedPatterns(D, TextA) \subseteq MatchedPatterns(D, TextB) =>
        /\ ScoresB[D.name] >= ScoresA[D.name]
        /\ OtherScoresEqual(D) =>
              last.result.totalScore >= pinned.call.result.totalScore

\* A has already reached max matches, B matches at least the same patterns
Saturated(D) ==
    /\ Has(D, "max")
    /\ MatchedPatterns(D, TextA) \subseteq MatchedPatterns(D, TextB)
    /\ Cardinality(MatchedPatterns(D, TextA)) >= D.max

\* C8 as stated: monotonicity for a non-negative weight, and no change of the
\* score once the match count has reached max.
C8_MonotoneAndSaturating ==
    TwoRoutesReturned =>
        \A D \in PatternDimensions :
            D.weight >= 0 =>
                /\ Monotone(D)
                /\ Saturated(D) => ScoresB[D.name] = ScoresA[D.name]

\* C8: monotonicity for a non-negative weight, and no change of the score once
\* the match count has reached a max of at least 1.
C8_MonotoneAndSaturatingFromOne ==
    TwoRoutesReturned =>
        \A D \in PatternDimensions :
            D.weight >= 0 =>
                /\ Monotone(D)
                /\ (Saturated(D) /\ D.max >= 1) => ScoresB[D.name] = ScoresA[D.name]

\* B matches one more pattern of a dimension whose match count A has already
\* brought to its max: the dimension's score stays, the total score grows
C8_Witness ==
    /\ TwoRoutesReturned
    /\ \E D \in PatternDimensions :
        /\ D.weight > 0
        /\ Saturated(D) /\ D.max >= 1
        /\ MatchedPatterns(D, TextA) # MatchedPatterns(D, TextB)
        /\ ScoresA[D.name] = D.max * D.weight
        /\ ScoresB[D.name] = ScoresA[D.name]
        /\ OtherScoresEqual(D)

-----------------------------------------------------------------------------
(* Claims about scoreDimension *)

Scored == last.op = "scoreDimension"

\* the number of patterns of the scored dimension that match the scored text
MatchCount ==
    IF Has(last.dimension, "patterns")
    THEN Cardinality(MatchedPatterns(last.dimension, last.text))
    ELSE 0

MaxAtLeastOne == Has(last.dimension, "max") /\ last.dimension.max >= 1

\* the score is the capped match count times the weight, and 0 without a
\* pattern or a match
CappedProduct ==
    /\ ~last.result.threw
    /\ last.result.value = Min(MatchCount, last.dimension.max) * last.dimension.weight
    /\ MatchCount = 0 => last.result.value = 0

\* C9 as stated: for max >= 1 the score is min(matches, max) * weight, it never
\* exceeds max * weight, and it is 0 without a pattern or a match.
C9_CappedProductBounded ==
    (Scored /\ MaxAtLeastOne) =>
        /\ CappedProduct
        /\ last.result.value <= last.dimension.max * last.dimension.weight

\* C9: for max >= 1 the score is min(matches, max) * weight and 0 without a
\* pattern or a match; for a non-negative weight it never exceeds max * weight.
C9_CappedProductBoundedNonNegative ==
    (Scored /\ MaxAtLeastOne) =>
        /\ CappedProduct
        /\ last.dimension.weight >= 0 =>
              last.result.value <= last.dimension.max * last.dimension.weight

\* more matching patterns than max: the score is max * weight
C9_Witness ==
    /\ Scored /\ MaxAtLeastOne
    /\ last.dimension.weight > 0
    /\ MatchCount > last.dimension.max
    /\ last.result.value = last.dimension.max * last.dimension.weight

IsValidPattern(pattern) == pattern \notin InvalidPatterns

WithoutInvalidPatterns(D) ==
    IF Has(D, "patterns")
    THEN [D EXCEPT !.patterns = SelectSeq(@, IsValidPattern)]
    ELSE D

\* C10: scoreDimension returns for a dimension with invalid patterns, and its
\* score is that of the dimension without them.
C10_InvalidPatternIsNonMatch ==
    Scored =>
        /\ ~last.result.threw
        /\ last.result.value =
              scoreDimension(last.text, WithoutInvalidPatterns(last.dimension)).value

\* an invalid pattern before two valid patterns that match
C10_Witness ==
    /\ Scored
    /\ Has(last.dimension, "patterns")
    /\ Len(last.dimension.patterns) >= 3
    /\ last.dimension.patterns[1] \in InvalidPatterns
    /\ MatchCount = 2
    /\ ~last.result.threw
    /\ last.result.value = 2 * last.dimension.weight
    /\ last.dimension.weight > 0

\* the scored dimension has a pattern that is not a valid regular expression;
\* filter() evaluates every pattern, so scoring encounters it
InvalidPatternEncountered ==
    /\ Scored
    /\ Has(last.dimension, "patterns")
    /\ \E i \in DOMAIN last.dimension.patterns : ~IsValidPattern(last.dimension.patterns[i])

\* C11: whenever scoring encounters an invalid pattern, a warning about it is
\* written to the operator-facing log, and nothing is propagated to the caller
C11_InvalidPatternWarned ==
    InvalidPatternEncountered =>
        /\ last.console # << >>
        /\ ~last.result.threw

-----------------------------------------------------------------------------
(* The length dimension: a router whose only dimension is named "length"
   routes two texts, one after the other *)

\* character counts around every threshold of scoreLength
BoundaryLengths == {0, 49, 50, 51, 149, 150, 499, 500, 1499, 1500, 1501, 4000}

LengthTexts == [words : SUBSET {"hello"}, length : BoundaryLengths, nonAscii : {FALSE}]

LengthWeights == {0 - 100, 0, 250}

\* a dimension named "length" with or without patterns and max
LengthDimensions ==
    {[name |-> "length", weight |-> w] : w \in LengthWeights}
    \cup {Dim("length", w, 1, ps) : w \in LengthWeights, ps \in {<<"hello">>, <<"(">>}}

\* the state after new ModelRouter(dimensions, tiers), with two texts to route
InitLength ==
    /\ disk = EmptyDisk
    /\ request \in [texts : LengthTexts \X LengthTexts]
    /\ configManager = NullRef
    /\ \E d \in LengthDimensions :
        router = [dimensions |-> [dimensions |-> <<d>>], tiers |-> TiersFallbackFile]
    /\ logger = NullRef
    /\ initialized = FALSE
    /\ initPc = "idle"
    /\ last = NoCall
    /\ pinned = NoCall
    /\ logDir = EmptyLogDir

\* router.route on the next of the two texts; the previous call is remembered
LengthRoute ==
    /\ Has(request, "texts")
    /\ request.texts # << >>
    /\ last' = RouteCall(Message(Head(request.texts)), TRUE, 0)
    /\ pinned' = IF last = NoCall THEN NoCall
                 ELSE [call |-> last, fresh |-> FALSE, between |-> {}]
    /\ request' = [request EXCEPT !.texts = Tail(@)]
    /\ UNCHANGED << logDir, disk, configManager, router, logger, initialized, initPc >>

NextLength == LengthRoute

SpecLength == InitLength /\ [][NextLength]_vars

-----------------------------------------------------------------------------
(* Claims about the length dimension *)

LengthRouted == last.op = "route" /\ ~last.result.threw /\ Has(last.result.scores, "length")

LengthWeight == router.dimensions.dimensions[1].weight

LengthOf(call) == call.message.text.length

LengthScore(call) == call.result.scores["length"]

\* the five bands, as the claim gives them
BandScore(n, w) ==
    IF n < 50 THEN 0
    ELSE IF n < 150 THEN (3 * w) \div 10
    ELSE IF n < 500 THEN (6 * w) \div 10
    ELSE IF n < 1500 THEN w
    ELSE (15 * w) \div 10

\* C12: the dimension named "length" is scored by the five bands of the
\* character count, whatever its patterns and max; for a non-negative
\* weight the score does not decrease as the count grows.
C12_LengthBands ==
    LengthRouted =>
        /\ LengthScore(last) = BandScore(LengthOf(last), LengthWeight)
        /\ (pinned # NoCall /\ LengthWeight >= 0 /\ LengthOf(pinned.call) <= LengthOf(last))
              => LengthScore(pinned.call) <= LengthScore(last)

\* a length dimension whose pattern matches the text: the longer text is in
\* the top band and scores more than the shorter one
C12_Witness ==
    /\ LengthRouted
    /\ pinned # NoCall
    /\ Has(router.dimensions.dimensions[1], "patterns")
    /\ router.dimensions.dimensions[1].patterns[1] \in last.message.text.words
    /\ LengthWeight > 0
    /\ LengthOf(pinned.call) = 1499
    /\ LengthOf(last) = 1500
    /\ LengthScore(pinned.call) = LengthWeight
    /\ LengthScore(last) = (15 * LengthWeight) \div 10

\* C13 as stated: 49 characters score 0, 50 score 0.3 * weight, 1500 score
\* 1.0 * weight, 1501 score 1.5 * weight.
C13_LengthBoundaries ==
    LengthRouted =>
        /\ LengthOf(last) = 49 => LengthScore(last) = 0
        /\ LengthOf(last) = 50 => LengthScore(last) = (3 * LengthWeight) \div 10
        /\ LengthOf(last) = 1500 => LengthScore(last) = LengthWeight
        /\ LengthOf(last) = 1501 => LengthScore(last) = (15 * LengthWeight) \div 10

\* C13: 49 characters score 0, 50 score 0.3 * weight, 1499 score
\* 1.0 * weight, 1500 and 1501 score 1.5 * weight.
C13_LengthBoundariesAt1500 ==
    LengthRouted =>
        /\ LengthOf(last) = 49 => LengthScore(last) = 0
        /\ LengthOf(last) = 50 => LengthScore(last) = (3 * LengthWeight) \div 10
        /\ LengthOf(last) = 1499 => LengthScore(last) = LengthWeight
        /\ LengthOf(last) = 1500 => LengthScore(last) = (15 * LengthWeight) \div 10
        /\ LengthOf(last) = 1501 => LengthScore(last) = (15 * LengthWeight) \div 10

\* a text of exactly 1500 characters in the top band
C13_Witness ==
    /\ LengthRouted
    /\ LengthOf(last) = 1500
    /\ LengthWeight = 250
    /\ LengthScore(last) = 375

-----------------------------------------------------------------------------
(* The scorer on its own: calculateScore of scorer.ts or of the refactored
   scorer, applied twice to one model and one score map, the second time
   with a total score and a text length that are not smaller *)

\* total scores around every threshold of the scorer
ScorerTotals == {0 - 50, 0, 149, 150, 349, 350, 549, 550, 1200}

\* text lengths whose token estimate is at and just above 50% and 80% of each
\* context window
ContextLengths ==
    {45} \cup UNION {{2 * W, 2 * W + 1, (32 * W) \div 10, (32 * W) \div 10 + 1}
                        : W \in {8000, 32000, 128000, 200000}}

ScorerPoints ==
    [totalScore : ScorerTotals, length : {45}] \cup [totalScore : {0}, length : ContextLengths]

\* dimension-score maps: no dimension, all zero, one positive, all positive
ScoreMaps ==
    { << >>,
      [code |-> 0, reasoning |-> 0, creative |-> 0],
      [code |-> 150, reasoning |-> 0, creative |-> 0],
      [code |-> 0, reasoning |-> 180, creative |-> 0],
      [code |-> 0, reasoning |-> 0, creative |-> 120],
      [code |-> 150, reasoning |-> 180, creative |-> 120] }

ScorerRequests ==
    {r \in [impl : {"original", "refactored"}, model : Models, dimensionScores : ScoreMaps,
            nonAscii : BOOLEAN, points : ScorerPoints \X ScorerPoints] :
        /\ r.points[1].totalScore <= r.points[2].totalScore
        /\ r.points[1].length <= r.points[2].length}

InitScorer ==
    /\ disk = EmptyDisk
    /\ request \in ScorerRequests
    /\ configManager = NullRef
    /\ router = NullRef
    /\ logger = NullRef
    /\ initialized = FALSE
    /\ initPc = "idle"
    /\ last = NoCall
    /\ pinned = NoCall
    /\ logDir = EmptyLogDir

ScorerMessage(point) ==
    Message([words |-> {}, length |-> point.length, nonAscii |-> request.nonAscii])

\* the previous call, remembered when the next one is made
Remembered == IF last = NoCall THEN NoCall ELSE [call |-> last, fresh |-> FALSE, between |-> {}]

\* scorer.calculateScore(model, dimensionScores, totalScore, message) of scorer.ts
CalculateScore ==
    /\ Has(request, "points") /\ request.points # << >>
    /\ request.impl = "original"
    /\ LET point == Head(request.points)
           message == ScorerMessage(point)
       IN last' = [op |-> "calculateScore", model |-> request.model,
                   dimensionScores |-> request.dimensionScores,
                   totalScore |-> point.totalScore, message |-> message,
                   parts |-> SubScores(request.model, request.dimensionScores,
                                       point.totalScore, message),
                   score |-> calculateScore(request.model, request.dimensionScores,
                                            point.totalScore, message)]
    /\ pinned' = Remembered
    /\ request' = [request EXCEPT !.points = Tail(@)]
    /\ UNCHANGED << logDir, disk, configManager, router, logger, initialized, initPc >>

\* the same call on the refactored scorer
CalculateScoreRefactored ==
    /\ Has(request, "points") /\ request.points # << >>
    /\ request.impl = "refactored"
    /\ LET point == Head(request.points)
           message == ScorerMessage(point)
       IN last' = [op |-> "calculateScore", model |-> request.model,
                   dimensionScores |-> request.dimensionScores,
                   totalScore |-> point.totalScore, message |-> message,
                   parts |-> SubScoresRefactored(request.model, request.dimensionScores,
                                                 point.totalScore, message),
                   score |-> calculateScoreRefactored(request.model, request.dimensionScores,
                                                      point.totalScore, message)]
    /\ pinned' = Remembered
    /\ request' = [request EXCEPT !.points = Tail(@)]
    /\ UNCHANGED << logDir, disk, configManager, router, logger, initialized, initPc >>

NextScorer ==
    \/ CalculateScore
    \/ CalculateScoreRefactored

SpecScorer == InitScorer /\ [][NextScorer]_vars

-----------------------------------------------------------------------------
(* Claims about calculateScore, checked under SpecScorer *)

Calculated == Has(last, "op") /\ last.op = "calculateScore"

\* the weights the specification lists, in ten-thousandths, largest first
ListedWeights == << 2500, 2000, 1500, 1000, 1000, 500, 500, 300, 300, 200, 100, 50, 25, 25 >>

\* the fourteen sub-scores in the order of the weighted sum
SubScoreNames ==
    << "costEfficiency", "taskSuitability", "contextWindow", "speed", "quality",
       "reliability", "multilingual", "codeGeneration", "reasoningDepth", "creativity",
       "safety", "latencyTolerance", "providerDiversity", "experimentalFeatures" >>

\* C14: calculateScore returns a value in [0,1] for every model, score map,
\* total score and message: each of the 14 sub-scores lies in [0,1], the
\* weights are the 14 listed ones and they sum to exactly 1.0 (the score is
\* held in ten-millionths: a sub-score in thousandths times a weight in
\* ten-thousandths)
C14_ScoreInUnitInterval ==
    Calculated =>
        /\ DOMAIN last.parts = {SubScoreNames[i] : i \in 1..14}
        /\ \A k \in DOMAIN last.parts : last.parts[k] >= 0 /\ last.parts[k] <= ONE
        /\ \A i \in 1..14 : weights[SubScoreNames[i]] = ListedWeights[i]
        /\ SumOver(weights, DOMAIN weights) = 10 * ONE
        /\ last.score >= 0 /\ last.score <= ONE * 10 * ONE

\* a free coding model scored for a simple coding request: a score above 0.9
C14_Witness ==
    /\ Calculated
    /\ last.score > 9 * ONE * ONE
    /\ \E k \in DOMAIN last.parts : last.parts[k] < ONE

\* the multiplier m(totalScore) as the specification states it
ClaimedMultiplier(totalScore) ==
    IF totalScore < 150 THEN ONE
    ELSE IF totalScore < 350 THEN 800
    ELSE IF totalScore < 550 THEN 500
    ELSE 0

\* the identifiers that name a free model
FreeModelIds == {m \in Models : "free" \in LowerSubstrings[m]}

ClaimedCost(model, totalScore) ==
    IF model \in FreeModelIds THEN ClaimedMultiplier(totalScore)
    ELSE (ONE - ClaimedMultiplier(totalScore)) \div 2

\* the two calls of one behaviour, the earlier one remembered
TwoCalculated == Calculated /\ pinned # NoCall /\ pinned.call.op = "calculateScore"

\* C15: a free model's cost score is m(totalScore) and a paid model's is
\* (1 - m) * 0.5; as totalScore rises the free score never increases and the
\* paid score never decreases; at one totalScore the paid score exceeds the
\* free score exactly when totalScore >= 0.55
C15_CostScore ==
    Calculated =>
        /\ last.parts.costEfficiency = ClaimedCost(last.model, last.totalScore)
        /\ (TwoCalculated /\ pinned.call.totalScore <= last.totalScore) =>
              IF last.model \in FreeModelIds
              THEN last.parts.costEfficiency <= pinned.call.parts.costEfficiency
              ELSE last.parts.costEfficiency >= pinned.call.parts.costEfficiency
        /\ \A other \in Models :
              /\ (last.model \in FreeModelIds /\ other \notin FreeModelIds) =>
                    ((ClaimedCost(other, last.totalScore) > last.parts.costEfficiency)
                        <=> last.totalScore >= 550)
              /\ (last.model \notin FreeModelIds /\ other \in FreeModelIds) =>
                    ((last.parts.costEfficiency > ClaimedCost(other, last.totalScore))
                        <=> last.totalScore >= 550)

\* a paid model scored at 0.549 and then at 0.55: its cost score rises to 0.5
C15_Witness ==
    /\ TwoCalculated
    /\ last.model \notin FreeModelIds
    /\ pinned.call.totalScore = 549 /\ last.totalScore = 550
    /\ pinned.call.parts.costEfficiency = 250
    /\ last.parts.costEfficiency = 500

\* the first of the three specialist groups an identifier belongs to, in the
\* order the specification lists them, with the dimension it corresponds to
SpecialistDimension(model) ==
    IF {"coder", "code"} \cap LowerSubstrings[model] # {} THEN "code"
    ELSE IF {"r1", "chimera", "think"} \cap LowerSubstrings[model] # {} THEN "reasoning"
    ELSE IF "trinity" \in LowerSubstrings[model] THEN "creative"
    ELSE NULL

GeneralFamily(model) == {"claude", "gpt", "llama"} \cap LowerSubstrings[model] # {}

DimensionPositive(scores, name) == name \in DOMAIN scores /\ scores[name] > 0

ClaimedSuitability(model, scores) ==
    IF SpecialistDimension(model) # NULL
    THEN IF DimensionPositive(scores, SpecialistDimension(model)) THEN ONE ELSE 500
    ELSE IF GeneralFamily(model) THEN 700
    ELSE 500

\* C16: a specialist identifier (coder/code; r1/chimera/think; trinity) scores
\* 1.0 on task suitability when its dimension (code; reasoning; creative) is
\* present with a score > 0 and 0.5 when it is not, also when the identifier
\* contains a general-family substring or a second specialist substring; a
\* non-specialist claude/gpt/llama identifier scores 0.7; any other 0.5
C16_TaskSuitability ==
    Calculated => last.parts.taskSuitability = ClaimedSuitability(last.model, last.dimensionScores)

\* text length / 4 rounded up
ClaimedTokens(length) == IF length % 4 = 0 THEN length \div 4 ELSE length \div 4 + 1

\* the nominal context window of the specification's table
ClaimedWindow(model) ==
    IF "claude" \in Substrings[model] THEN 200000
    ELSE IF "gpt-4" \in Substrings[model] THEN 128000
    ELSE IF "llama" \in Substrings[model] THEN 128000
    ELSE IF "qwen" \in Substrings[model] THEN 32000
    ELSE 8000

ClaimedContext(model, length) ==
    IF 10 * ClaimedTokens(length) > 8 * ClaimedWindow(model) THEN 0
    ELSE IF 10 * ClaimedTokens(length) > 5 * ClaimedWindow(model) THEN 500
    ELSE ONE

\* C17: with estimatedTokens = ceil(length / 4) and W the model's nominal
\* context window, the context-fit score is 0.0 above 0.8 * W, 0.5 above
\* 0.5 * W up to 0.8 * W and 1.0 otherwise, and a longer text never scores
\* higher
C17_ContextFit ==
    Calculated =>
        /\ last.parts.contextWindow = ClaimedContext(last.model, last.message.text.length)
        /\ (TwoCalculated /\ pinned.call.message.text.length <= last.message.text.length) =>
              last.parts.contextWindow <= pinned.call.parts.contextWindow

\* a text of exactly 50% of the window in tokens scores 1.0, one character
\* more scores 0.5
C17_Witness ==
    /\ TwoCalculated
    /\ pinned.call.message.text.length = 2 * ClaimedWindow(last.model)
    /\ last.message.text.length = 2 * ClaimedWindow(last.model) + 1
    /\ pinned.call.parts.contextWindow = ONE
    /\ last.parts.contextWindow = 500

\* the same at 80% of the window: 0.5, and 0.0 one character later
C17_WitnessUpper ==
    /\ TwoCalculated
    /\ pinned.call.message.text.length * 10 = 32 * ClaimedWindow(last.model)
    /\ last.message.text.length = pinned.call.message.text.length + 1
    /\ pinned.call.parts.contextWindow = 500
    /\ last.parts.contextWindow = 0

-----------------------------------------------------------------------------
(* Claims about scoreModels, checked under SpecRepeat *)

\* scoreModels() on the message of the remembered route() call, whose result
\* shows the dimension scores and the total score of that message
ScoredAfterRoute ==
    /\ pinned # NoCall
    /\ last.op = "scoreModels"
    /\ pinned.call.message = last.message
    /\ ~pinned.call.result.threw
    /\ ~last.result.threw

CodingRequest == DimensionPositive(pinned.call.result.scores, "code")

\* a total score below the last threshold of the cost multiplier: the request
\* is not a complex one
LowTotalScore == pinned.call.result.totalScore < 550

FreeCoderModels(candidates) ==
    {m \in candidates : m \in FreeModelIds /\ "coder" \in LowerSubstrings[m]}

GenericPaidModels(candidates) ==
    {m \in candidates : m \notin FreeModelIds /\ SpecialistDimension(m) = NULL}

-----------------------------------------------------------------------------
(* DecisionLogger (index.ts).  The log directory holds the active file
   decisions.jsonl, a sequence of records, and the archives by the timestamp
   in their name.  File sizes are counted in MiB. *)

\* LOG_FILE_MAX_SIZE: 10 * 1024 * 1024 bytes
LOG_FILE_MAX_SIZE == 10

\* stats.size of a file: the sizes of its lines added up
FileSize(lines) == SumOver([i \in DOMAIN lines |-> lines[i].size], DOMAIN lines)

\* createLogEntry(messageId, channel, result, reason); size is the length of
\* the JSON line
createLogEntry(messageId, channel, result, size) ==
    [message_id |-> messageId, channel |-> channel, complexity |-> result.tier,
     selected_model |-> result.fullModel, size |-> size]

\* writeLog(log): appendFileSync creates the file if need be; an error of the
\* file system is caught and the line is not written
writeLog(dir, log, fsFails) ==
    IF fsFails THEN dir
    ELSE [dir EXCEPT !.exists = TRUE, !.active = Append(@, log)]

\* logDecision: nothing when the logger is disabled
logDecision(this, dir, log, fsFails) ==
    IF ~this.enabled THEN dir ELSE writeLog(dir, log, fsFails)

\* rotateLog(): renameSync moves decisions.jsonl to decisions-<timestamp>.jsonl
\* and replaces a file of that name
rotateLog(dir, timestamp) ==
    [exists |-> FALSE, active |-> << >>,
     archives |-> [t \in DOMAIN dir.archives \cup {timestamp} |->
                      IF t = timestamp THEN dir.active ELSE dir.archives[t]]]

\* rotateLogIfNeeded(): nothing without the file; an error of statSync or
\* renameSync is caught
rotateLogIfNeeded(dir, timestamp, fsFails) ==
    IF ~dir.exists THEN dir
    ELSE IF fsFails THEN dir
    ELSE IF FileSize(dir.active) > LOG_FILE_MAX_SIZE THEN rotateLog(dir, timestamp)
    ELSE dir

\* lines.slice(-limit): -0 is 0, so a limit of 0 selects from the start
SliceLast(lines, limit) ==
    IF limit = 0 \/ limit >= Len(lines) THEN lines
    ELSE SubSeq(lines, Len(lines) - limit + 1, Len(lines))

\* getRecentDecisions(limit): [] without the file or on a read error
getRecentDecisions(dir, limit, fsFails) ==
    IF ~dir.exists THEN << >>
    ELSE IF fsFails THEN << >>
    ELSE SliceLast(dir.active, limit)

-----------------------------------------------------------------------------
(* The plugin in its host: init() in the steps its awaits divide it into,
   one onMessageBeforeAgent() or route() call interleaved with them, destroy(),
   and an operator who edits the configuration files between two init() calls *)

\* isEnabled(channel) without the channel lookup
isEnabledIgnoringChannel(this, channel) ==
    IF this = NullRef \/ this.config = Undefined THEN [threw |-> TRUE]
    ELSE [threw |-> FALSE, value |-> this.config.enabled]

\* ConfigManager.isEnabled(channel): reads this.config.enabled and
\* this.config.channels[channel]; a TypeError when config is not loaded yet or
\* channels is null
isEnabled(this, channel) ==
    IF this = NullRef \/ this.config = Undefined THEN [threw |-> TRUE]
    ELSE IF ~this.config.enabled THEN [threw |-> FALSE, value |-> FALSE]
    ELSE IF Truthy(channel) /\ this.config.channels = NullRef THEN [threw |-> TRUE]
    ELSE IF Truthy(channel) /\ channel \in DOMAIN this.config.channels
    THEN [threw |-> FALSE, value |-> this.config.channels[channel].enabled]
    ELSE [threw |-> FALSE, value |-> TRUE]

\* ConfigManager.getStrategy(): this.config.strategy
getStrategy(this) ==
    IF this = NullRef \/ this.config = Undefined THEN [threw |-> TRUE]
    ELSE [threw |-> FALSE, value |-> this.config.strategy]

\* ModelRouterPlugin.isReady()
isReady == initialized /\ router # NullRef /\ configManager # NullRef

\* const preferFree = this.configManager!.getStrategy() === 'cost-optimized'
preferFree(strategy) == strategy = "cost-optimized"

\* performRouting(message): getStrategy(), then router.route(message, preferFree)
performRouting(message, elapsed) ==
    LET strategy == getStrategy(configManager)
    IN IF strategy.threw THEN [threw |-> TRUE]
       ELSE route(router, message, preferFree(strategy.value), elapsed)

\* the fields of the plugin a call reads when it starts, and the configuration
\* files at that moment
Seen ==
    [initialized |-> initialized, configManager |-> configManager, router |-> router,
     logger |-> logger, reloading |-> initPc # "idle", disk |-> disk,
     destroyedBefore |-> pinned # NoCall]

HookMessage(text, channel) == [id |-> "m1", text |-> text, channel |-> channel]

PluginTexts == {[words |-> {w}, length |-> 45, nonAscii |-> FALSE] : w \in {"function", "hello"}}

PluginChannels == {"default", "whatsapp"}

\* the context of the host: no override yet, or the host's own choice
PluginContexts == {[modelOverride |-> NULL], [modelOverride |-> "host/default-model"]}

PluginRequests ==
    [kind : {"hook"}, message : {HookMessage(t, c) : t \in PluginTexts, c \in PluginChannels},
     context : PluginContexts, pc : {"start"}, result : {NoCall}, seen : {NoCall}]
    \cup
    [kind : {"route"}, message : {HookMessage(t, "default") : t \in PluginTexts},
     context : {[modelOverride |-> NULL]}, pc : {"start"}, result : {NoCall}, seen : {NoCall}]
    \cup
    [kind : {"format"}, message : {HookMessage(t, "default") : t \in PluginTexts},
     context : {[modelOverride |-> NULL]}, pc : {"start"}, result : {NoCall}, seen : {NoCall}]

\* default.yaml: absent, a file that changes the strategy and disables a
\* channel, a file whose "channels:" key has no value, a file with the third
\* strategy and no decision log, a file that disables routing
ConfigQualityFirst ==
    FileOf([strategy |-> "quality-first", channels |-> [whatsapp |-> [enabled |-> FALSE]]])

ConfigNullChannels == FileOf([channels |-> NullRef])

ConfigBalanced == FileOf([strategy |-> "balanced", log_decisions |-> FALSE])

ConfigDisabled == FileOf([enabled |-> FALSE])

TiersOtherFile ==
    [tiers |-> TiersFull,
     thresholds |-> [TiersFallbackFile.thresholds EXCEPT !.SIMPLE_MAX = 350, !.PREMIUM_MIN = 100]]

TiersWithoutCodingFile ==
    [tiers |-> Without(TiersFull, "CODING"), thresholds |-> TiersFallbackFile.thresholds]

PluginDisk(config, dimensions, tiers) ==
    [config |-> config, dimensions |-> dimensions, dimensionsFallback |-> Absent,
     tiers |-> tiers, tiersFallback |-> Absent]

PluginDisks ==
    { PluginDisk(Absent, FileOf(DimensionsTypical), FileOf(TiersFallbackFile)),
      PluginDisk(ConfigQualityFirst, FileOf(DimensionsOdd), FileOf(TiersOtherFile)),
      PluginDisk(Absent, FileOf(DimensionsTypical), FileOf(TiersWithoutCodingFile)),
      PluginDisk(ConfigNullChannels, FileOf(DimensionsTypical), FileOf(TiersFallbackFile)),
      PluginDisk(ConfigBalanced, FileOf(DimensionsTypical), FileOf(TiersFallbackFile)),
      PluginDisk(ConfigDisabled, FileOf(DimensionsTypical), FileOf(TiersFallbackFile)),
      PluginDisk(Absent, FileOf(DimensionsTypical), Malformed),
      PluginDisk(Absent, Absent, FileOf(TiersFallbackFile)) }

InitPlugin ==
    /\ disk \in PluginDisks
    /\ request \in PluginRequests
    /\ configManager = NullRef
    /\ router = NullRef
    /\ logger = NullRef
    /\ initialized = FALSE
    /\ initPc = "idle"
    /\ last = NoCall
    /\ pinned = NoCall
    /\ logDir = EmptyLogDir

\* load(), first await: this.config = await this.loadConfig()
LoadConfigStep ==
    /\ initPc = "loading"
    /\ configManager' = [configManager EXCEPT !.config = loadConfig(disk)]
    /\ initPc' = "loadedConfig"
    /\ UNCHANGED << logDir, disk, router, logger, initialized, request, last, pinned >>

\* load(), second await: this.dimensions = await this.loadDimensions(); an
\* error rejects load() and init() rethrows it
LoadDimensionsStep ==
    /\ initPc = "loadedConfig"
    /\ LET r == loadDimensions(disk) IN
        IF r.threw
        THEN /\ initPc' = "idle"
             /\ last' = [op |-> "init", threw |-> TRUE]
             /\ UNCHANGED configManager
        ELSE /\ initPc' = "loadedDimensions"
             /\ configManager' = [configManager EXCEPT !.dimensions = r.value]
             /\ UNCHANGED last
    /\ UNCHANGED << logDir, disk, router, logger, initialized, request, pinned >>

\* load(), third await: this.tiers = await this.loadTiers()
LoadTiersStep ==
    /\ initPc = "loadedDimensions"
    /\ LET r == loadTiers(disk) IN
        IF r.threw
        THEN /\ initPc' = "idle"
             /\ last' = [op |-> "init", threw |-> TRUE]
             /\ UNCHANGED configManager
        ELSE /\ initPc' = "loadedTiers"
             /\ configManager' = [configManager EXCEPT !.tiers = r.value]
             /\ UNCHANGED last
    /\ UNCHANGED << logDir, disk, router, logger, initialized, request, pinned >>

\* init() after "await this.configManager.load()": the router and the
\* decision logger are built and initialized is set
InitFinish ==
    /\ initPc = "loadedTiers"
    /\ router' = [dimensions |-> configManager.dimensions, tiers |-> configManager.tiers]
    /\ logger' = [enabled |-> configManager.config.log_decisions]
    /\ initialized' = TRUE
    /\ initPc' = "idle"
    /\ last' = [op |-> "init", threw |-> FALSE]
    /\ UNCHANGED << logDir, disk, configManager, request, pinned >>

\* the operator edits the configuration files while no init() is running and
\* before the call under examination starts: no call reads the files, so an
\* edit during or after the call is the same edit made before it
EditDisk ==
    /\ initPc = "idle"
    /\ initialized
    /\ request.pc = "start"
    /\ disk' \in PluginDisks \ {disk}
    /\ UNCHANGED << logDir, configManager, router, logger, initialized, initPc, request, last, pinned >>

HookReturn(context, routed, routeFailed, seen) ==
    [op |-> "onMessageBeforeAgent", threw |-> FALSE, context |-> context,
     routed |-> routed, routeFailed |-> routeFailed, seen |-> seen]

\* onMessageBeforeAgent() up to its first await: the readiness test, the
\* channel test (outside the try block), and performRouting inside the try
\* block, whose rejection the catch block turns into "return context"
HookStart ==
    /\ request.kind = "hook" /\ request.pc = "start"
    /\ IF ~isReady
       THEN /\ last' = HookReturn(request.context, FALSE, FALSE, Seen)
            /\ request' = [request EXCEPT !.pc = "done"]
       ELSE LET enabled == isEnabled(configManager, request.message.channel) IN
            IF enabled.threw
            THEN /\ last' = [op |-> "onMessageBeforeAgent", threw |-> TRUE, seen |-> Seen]
                 /\ request' = [request EXCEPT !.pc = "done"]
            ELSE IF ~enabled.value
            THEN /\ last' = HookReturn(request.context, FALSE, FALSE, Seen)
                 /\ request' = [request EXCEPT !.pc = "done"]
            ELSE \E elapsed \in {0, MaxElapsedMs} :
                  LET result == performRouting(request.message, elapsed) IN
                  IF result.threw
                  THEN /\ last' = HookReturn(request.context, FALSE, TRUE, Seen)
                       /\ request' = [request EXCEPT !.pc = "done"]
                  ELSE /\ request' = [request EXCEPT !.pc = "routed", !.result = result,
                                                     !.seen = Seen]
                       /\ UNCHANGED last
    /\ UNCHANGED << logDir, disk, configManager, router, logger, initialized, initPc, pinned >>

\* logRoutingDecision(): if (this.logger) await this.logger.logDecision(...);
\* a failing appendFileSync is caught in writeLog
HookLog ==
    /\ request.kind = "hook" /\ request.pc = "routed"
    /\ request' = [request EXCEPT !.pc = "logged"]
    /\ IF logger = NullRef
       THEN UNCHANGED logDir
       ELSE \E fsFails \in BOOLEAN :
             logDir' = logDecision(logger, logDir,
                                   createLogEntry(request.message.id, request.message.channel,
                                                  request.result, 1),
                                   fsFails)
    /\ UNCHANGED << disk, configManager, router, logger, initialized, initPc, last, pinned >>

\* context.modelOverride = result.fullModel; this.logger!.rotateLogIfNeeded(),
\* a TypeError after destroy(), which the catch block turns into "return
\* context"; rotateLogIfNeeded catches its own errors
HookFinish ==
    /\ request.kind = "hook" /\ request.pc = "logged"
    /\ last' = HookReturn([request.context EXCEPT !.modelOverride = request.result.fullModel],
                          TRUE, FALSE, request.seen)
    /\ request' = [request EXCEPT !.pc = "done"]
    /\ logDir' = IF logger = NullRef THEN logDir ELSE rotateLogIfNeeded(logDir, 0, FALSE)
    /\ UNCHANGED << disk, configManager, router, logger, initialized, initPc, pinned >>

\* if (!this.router) throw new Error('Plugin not initialized. Call init() first.')
NotInitialized == [threw |-> TRUE, error |-> "Plugin not initialized. Call init() first."]

\* ModelRouterPlugin.route(text, channel): throws without a router, else
\* getStrategy() and router.route()
PluginRoute ==
    /\ request.kind = "route" /\ request.pc = "start"
    /\ \E elapsed \in {0, MaxElapsedMs} :
        last' = [op |-> "pluginRoute", seen |-> Seen,
                 result |-> IF router = NullRef THEN NotInitialized
                            ELSE performRouting(request.message, elapsed)]
    /\ request' = [request EXCEPT !.pc = "done"]
    /\ UNCHANGED << logDir, disk, configManager, router, logger, initialized, initPc, pinned >>

\* ModelRouterPlugin.formatResult(result, verbose): throws without a router,
\* else the router formats the result
PluginFormatResult ==
    /\ request.kind = "format" /\ request.pc = "start"
    /\ last' = [op |-> "formatResult", seen |-> Seen,
                 result |-> IF router = NullRef THEN NotInitialized
                            ELSE [threw |-> FALSE]]
    /\ request' = [request EXCEPT !.pc = "done"]
    /\ UNCHANGED << logDir, disk, configManager, router, logger, initialized, initPc, pinned >>

NextPlugin ==
    \/ InitBegin
    \/ LoadConfigStep
    \/ LoadDimensionsStep
    \/ LoadTiersStep
    \/ InitFinish
    \/ EditDisk
    \/ Destroy
    \/ HookStart
    \/ HookLog
    \/ HookFinish
    \/ PluginRoute
    \/ PluginFormatResult

SpecPlugin == InitPlugin /\ [][NextPlugin]_vars

-----------------------------------------------------------------------------
(* Claims about the plugin, checked under SpecPlugin *)

HookEnded == Has(last, "op") /\ last.op = "onMessageBeforeAgent"

\* C19: onMessageBeforeAgent never throws into the host: whatever fails while
\* it runs, it resolves with the context object; if route() itself fails the
\* returned context has modelOverride unchanged
C19_HookNeverThrows ==
    HookEnded =>
        /\ ~last.threw
        /\ last.routeFailed => last.context = request.context

\* a call is made on an initialized plugin: it has a router and a
\* configManager
CallOnInitialized ==
    /\ Has(last, "op") /\ last.op \in {"onMessageBeforeAgent", "pluginRoute"}
    /\ last.seen.initialized
    /\ last.seen.router # NullRef
    /\ last.seen.configManager # NullRef

\* the configuration manager is completely loaded and the router was built
\* from its dimensions and tiers: one configuration, the old or the new one
CompleteConfiguration(seen) ==
    /\ seen.configManager.config # Undefined
    /\ seen.configManager.dimensions # Undefined
    /\ seen.configManager.tiers # Undefined
    /\ seen.router = [dimensions |-> seen.configManager.dimensions,
                      tiers |-> seen.configManager.tiers]

\* the call ended with the TypeError of reading a configuration that is not
\* loaded yet
FailedByReload ==
    /\ last.seen.configManager.config = Undefined
    /\ IF last.op = "pluginRoute" THEN last.result.threw ELSE last.threw

\* C20: a call interleaved with a second init() observes the complete old or
\* the complete new configuration (router, dimensions, tiers, strategy, channel
\* settings), never a configManager that is not loaded yet or the old router
\* with new settings, and it does not fail because of the reload
C20_AtomicConfigurationSwap ==
    CallOnInitialized =>
        /\ CompleteConfiguration(last.seen)
        /\ ~FailedByReload

-----------------------------------------------------------------------------
(* The refactored scorer against the scorer of scorer.ts, under SpecScorer *)

\* C28: for every model identifier, dimension-score map, totalScore and
\* message, calculateScore of the refactored scorer returns what calculateScore
\* of scorer.ts returns; in particular the task-suitability and the cost
\* sub-scores agree
C28_RefactoredScorerPreservesBehaviour ==
    (Calculated /\ request.impl = "refactored") =>
        /\ last.score = calculateScore(last.model, last.dimensionScores,
                                       last.totalScore, last.message)
        /\ last.parts.taskSuitability = scoreSuitability(last.model, last.dimensionScores)
        /\ last.parts.costEfficiency = scoreCost(last.model, last.totalScore)

-----------------------------------------------------------------------------
(* Cascade rule d and the result of selectModel, checked under Spec *)

\* the trigger of rule d as the specification gives it: the configured value
\* whenever one is configured, 0.10 otherwise
ClaimedMultistepTrigger ==
    IF "MULTISTEP_TRIGGER" \in DOMAIN LastThresholds
    THEN LastThresholds.MULTISTEP_TRIGGER
    ELSE MULTISTEP_DEFAULT

ClaimedMultistepMet ==
    /\ "multistep" \in DOMAIN last.result.scores
    /\ last.result.scores["multistep"] >= ClaimedMultistepTrigger

\* C25: when rules a-c do not apply, rule d compares multistep with the
\* configured MULTISTEP_TRIGGER whenever it is set, 0 included, and with 0.10
\* only when it is unset: the tier is COMPLEX when that comparison holds and
\* the tier of the later rules when it does not
C25_MultistepTriggerAsConfigured ==
    (RouteReturned /\ ~ReasoningMet /\ ~CodingMet /\ ~CreativeMet) =>
        /\ ClaimedMultistepMet => last.result.tier = "COMPLEX"
        /\ ~ClaimedMultistepMet => last.result.tier = BandTier


\* the configuration entry of the tier of the last result
LastTierEntry == router.tiers.tiers[last.result.tier]

\* the free side of the entry was chosen
FreeSideChosen == Truthy(LastTierEntry.free) /\ last.result.model = LastTierEntry.free

\* C29: in every result of route(), model and fullModel come from the same
\* side of the entry of result.tier; fallback and fullFallback are both null
\* or both non-null, non-null exactly when the free side was chosen, and then
\* equal to the tier's paid and fullPaid; fullModel is never null
C29_ResultConsistent ==
    RouteReturned =>
        LET r == last.result
            entry == LastTierEntry
        IN /\ \/ r.model = entry.free /\ r.fullModel = entry.fullFree
              \/ r.model = entry.paid /\ r.fullModel = entry.fullPaid
           /\ (r.fallback = NULL) <=> (r.fullFallback = NULL)
           /\ (r.fallback # NULL) <=> FreeSideChosen
           /\ FreeSideChosen => r.fallback = entry.paid /\ r.fullFallback = entry.fullPaid
           /\ r.fullModel # NULL

-----------------------------------------------------------------------------
(* The decision logger on its own: logDecision, rotateLogIfNeeded and
   getRecentDecisions in any order, with a wall clock that may stand still
   between two calls *)

\* number of logDecision calls of one behaviour
MaxRecords == 4

\* the clock readings of one behaviour
MaxTime == 2

\* the largest limit passed to getRecentDecisions
MaxLimit == 3

\* sizes of a log line, in the unit of LOG_FILE_MAX_SIZE
RecordSizes == {4, 7}

InitLogger ==
    /\ disk = EmptyDisk
    /\ configManager = NullRef
    /\ router = NullRef
    /\ logger \in [enabled : BOOLEAN]
    /\ initialized = FALSE
    /\ initPc = "idle"
    /\ request = [n |-> 0, now |-> 0, written |-> << >>]
    /\ last = NoCall
    /\ pinned = NoCall
    /\ logDir = EmptyLogDir

\* the result that is logged: only tier and fullModel are read
LoggedResult == [tier |-> "SIMPLE", fullModel |-> "anthropic/claude-haiku-4-5"]

\* logger.logDecision(messageId, channel, result, reason); request.written is
\* the list of the lines that reached the file
LogDecision ==
    /\ request.n < MaxRecords
    /\ \E size \in RecordSizes, fsFails \in BOOLEAN :
        LET log == createLogEntry(request.n + 1, "default", LoggedResult, size)
            after == logDecision(logger, logDir, log, fsFails)
        IN /\ logDir' = after
           /\ request' = [request EXCEPT !.n = @ + 1,
                             !.written = IF after = logDir THEN @ ELSE Append(@, log)]
           /\ last' = [op |-> "logDecision", log |-> log, written |-> after # logDir]
    /\ UNCHANGED << disk, configManager, router, logger, initialized, initPc, pinned >>

\* logger.rotateLogIfNeeded(), new Date() reading request.now
RotateLogIfNeeded ==
    /\ \E fsFails \in BOOLEAN :
        LET after == rotateLogIfNeeded(logDir, request.now, fsFails)
        IN /\ logDir' = after
           /\ last' = [op |-> "rotateLogIfNeeded", before |-> logDir,
                       timestamp |-> request.now, rotated |-> after # logDir]
    /\ UNCHANGED << disk, configManager, router, logger, initialized, initPc, request, pinned >>

\* logger.getRecentDecisions(limit)
GetRecentDecisions ==
    /\ \E limit \in 0..MaxLimit, fsFails \in BOOLEAN :
        last' = [op |-> "getRecentDecisions", limit |-> limit, fsFails |-> fsFails,
                 result |-> getRecentDecisions(logDir, limit, fsFails)]
    /\ UNCHANGED << logDir, disk, configManager, router, logger, initialized, initPc,
                    request, pinned >>

\* the wall clock advances
Tick ==
    /\ request.now < MaxTime
    /\ request' = [request EXCEPT !.now = @ + 1]
    /\ UNCHANGED << logDir, disk, configManager, router, logger, initialized, initPc,
                    last, pinned >>

NextLogger ==
    \/ LogDecision
    \/ RotateLogIfNeeded
    \/ GetRecentDecisions
    \/ Tick

SpecLogger == InitLogger /\ [][NextLogger]_vars

-----------------------------------------------------------------------------
(* Claims about the decision log, checked under SpecLogger *)

RECURSIVE ArchivedLines(_, _)
\* the lines of the archives with a timestamp up to t, oldest archive first
ArchivedLines(dir, t) ==
    IF t < 0 THEN << >>
    ELSE ArchivedLines(dir, t - 1)
            \o (IF t \in DOMAIN dir.archives THEN dir.archives[t] ELSE << >>)

Rotated == Has(last, "op") /\ last.op = "rotateLogIfNeeded" /\ last.rotated

\* C23: after any sequence of logDecision and rotateLogIfNeeded calls every
\* record ever written is present exactly once, in write order, in the
\* archives plus the active file; a rotation happens only when the active file
\* exceeds 10MB, moves the whole active file to the archive named by the
\* timestamp, and no two rotations write to the same archive
C23_RotationLosesNothing ==
    /\ Has(request, "written") =>
          ArchivedLines(logDir, MaxTime) \o logDir.active = request.written
    /\ Rotated =>
          /\ FileSize(last.before.active) > LOG_FILE_MAX_SIZE
          /\ ~logDir.exists /\ logDir.active = << >>
          /\ logDir.archives[last.timestamp] = last.before.active
          /\ last.timestamp \notin DOMAIN last.before.archives

GotRecentDecisions == Has(last, "op") /\ last.op = "getRecentDecisions"

\* C30: getRecentDecisions(limit) returns the last min(limit, n) records of
\* the active decision log in write order, n being the number of records in
\* the file, never more than limit records, for every limit >= 0, and the
\* empty list when the log file does not exist
C30_RecentDecisions ==
    (GotRecentDecisions /\ ~last.fsFails) =>
        LET n == Len(logDir.active)
            k == Min(last.limit, n)
        IN /\ Len(last.result) = k
           /\ Len(last.result) <= last.limit
           /\ \A i \in 1..k : last.result[i] = logDir.active[n - k + i]
           /\ ~logDir.exists => last.result = << >>

-----------------------------------------------------------------------------
(* Claims about the strategy, the decision log and the lifecycle of the
   plugin, checked under SpecPlugin *)

\* a routing decision was made through the plugin: route() resolved, or the
\* hook returned the context with the override of its decision
Decided ==
    /\ Has(last, "op")
    /\ \/ last.op = "pluginRoute" /\ ~last.result.threw
       \/ last.op = "onMessageBeforeAgent" /\ ~last.threw /\ last.routed

Decision == IF last.op = "pluginRoute" THEN last.result ELSE request.result

\* the strategy in force when the decision was made, and the entry of the
\* decided tier
DecidedStrategy == last.seen.configManager.config.strategy

DecidedEntry == last.seen.router.tiers.tiers[Decision.tier]

\* the decision the same router takes for the text under another strategy
DecisionUnder(strategy, text) ==
    LET r == route(last.seen.router, HookMessage(text, "default"), preferFree(strategy), 0)
    IN IF r.threw THEN r ELSE [threw |-> FALSE, tier |-> r.tier, model |-> r.model,
                               fullModel |-> r.fullModel]

\* C21: the configured strategy determines the cost preference of every
\* decision made through the plugin: under 'cost-optimized' the free model of
\* the tier is chosen whenever the tier has one, under 'quality-first' the
\* paid model is chosen, and 'balanced' does not decide every request as
\* 'quality-first' does
C21_StrategyDeterminesPreference ==
    Decided =>
        /\ (DecidedStrategy = "cost-optimized" /\ Truthy(DecidedEntry.free))
              => Decision.model = DecidedEntry.free
        /\ DecidedStrategy = "quality-first" => Decision.model = DecidedEntry.paid
        /\ DecidedStrategy = "balanced"
              => \E text \in PluginTexts :
                    DecisionUnder("balanced", text) # DecisionUnder("quality-first", text)

\* the hook returned with context.modelOverride set by its routing decision
HookRouted == HookEnded /\ ~last.threw /\ last.routed

\* the decision records of the message in the decision log
RecordsOf(messageId) ==
    {i \in DOMAIN logDir.active : logDir.active[i].message_id = messageId}

\* C22: act-and-persist: whenever onMessageBeforeAgent returns with
\* context.modelOverride set by a routing decision and log_decisions is
\* enabled, exactly one decision record of that message has been appended to
\* the decision log, with the message id, the channel, the resolved tier and a
\* selected_model equal to the modelOverride
C22_ActAndPersist ==
    (HookRouted /\ last.seen.configManager.config.log_decisions)
        => /\ Cardinality(RecordsOf(request.message.id)) = 1
           /\ \A i \in RecordsOf(request.message.id) :
                /\ logDir.active[i].channel = request.message.channel
                /\ logDir.active[i].complexity = request.result.tier
                /\ logDir.active[i].selected_model = last.context.modelOverride

\* what loading the configuration files gives
Loaded(files) == load(NewConfigManager, files)

\* C24: hot-reloadable configuration: after the plugin has been initialized,
\* a change to the configuration files (strategy, channel enablement,
\* dimensions, tiers) applies to the following calls without a restart and
\* without another init(): a call on an initialized plugin with no init()
\* running decides with what the files hold when it starts
C24_HotReload ==
    (CallOnInitialized /\ ~last.seen.reloading /\ ~Loaded(last.seen.disk).threw)
        => /\ last.seen.configManager = Loaded(last.seen.disk).this
           /\ last.seen.router = [dimensions |-> Loaded(last.seen.disk).this.dimensions,
                                   tiers |-> Loaded(last.seen.disk).this.tiers]

\* the channel table of the configuration a call saw has an entry for the
\* channel, and what it says
ChannelListed(seen, channel) ==
    /\ seen.configManager.config.channels # NullRef
    /\ channel \in DOMAIN seen.configManager.config.channels

\* routing is disabled globally or for the channel
RoutingDisabled(seen, channel) ==
    /\ seen.configManager # NullRef
    /\ seen.configManager.config # Undefined
    /\ \/ ~seen.configManager.config.enabled
       \/ /\ ChannelListed(seen, channel)
          /\ ~seen.configManager.config.channels[channel].enabled

\* routing is enabled globally and not disabled for the channel
RoutingEnabled(seen, channel) ==
    /\ seen.configManager # NullRef
    /\ seen.configManager.config # Undefined
    /\ seen.configManager.config.enabled
    /\ seen.configManager.config.channels # NullRef
    /\ ChannelListed(seen, channel) => seen.configManager.config.channels[channel].enabled

StandaloneEnded == Has(last, "op") /\ last.op \in {"pluginRoute", "formatResult"}

\* C26: no routing while not ready: when the plugin is not initialized (before
\* init, after a failed first init, after destroy) or routing is disabled
\* globally or for the channel of the message, onMessageBeforeAgent returns
\* the context with modelOverride unchanged and appends nothing to the
\* decision log; route() and formatResult() on a plugin with no router raise
\* 'Plugin not initialized'; after destroy() and a successful init() the hook
\* routes again
C26_NoRoutingWhileNotReady ==
    /\ (HookEnded /\ (~last.seen.initialized
                        \/ RoutingDisabled(last.seen, request.message.channel)))
          => /\ ~last.threw
             /\ last.context = request.context
             /\ RecordsOf(request.message.id) = {}
    /\ (StandaloneEnded /\ last.seen.router = NullRef)
          => /\ last.result.threw
             /\ last.result = NotInitialized
    /\ (HookEnded /\ last.seen.destroyedBefore /\ last.seen.initialized
                   /\ RoutingEnabled(last.seen, request.message.channel))
          => /\ ~last.threw
             /\ \/ last.routeFailed
                \/ /\ last.routed
                   /\ last.context.modelOverride = request.result.fullModel

\* after destroy() and a successful init() the hook routed and logged
C26_Witness ==
    /\ HookRouted
    /\ last.seen.destroyedBefore
    /\ last.context.modelOverride = request.result.fullModel
    /\ last.context # request.context
    /\ RecordsOf(request.message.id) # {}

\* the plugin as getStatus() and the next call find it
Current == [initialized |-> initialized, configManager |-> configManager, router |-> router]

\* C27: lifecycle consistency: in every reachable state the plugin is marked
\* initialized only if router, configManager and decision logger are all
\* non-null and come from the same successful init(): the manager is
\* completely loaded, the router was built from its dimensions and tiers and
\* the logger from its log_decisions; a failing init() never leaves a router
\* of one load with the settings of another
C27_LifecycleConsistency ==
    initialized =>
        /\ router # NullRef
        /\ configManager # NullRef
        /\ logger # NullRef
        /\ CompleteConfiguration(Current)
        /\ logger = [enabled |-> configManager.config.log_decisions]
====
